---------------------------- MODULE Spec2Model ----------------------------
(***************************************************************************)
(* The nayru text-to-speech pipeline (crates/nayru-lib/src/tts.rs) and the *)
(* text utilities it uses (crates/nayru-core/src/text_prep.rs).            *)
(*                                                                         *)
(* Text is a sequence of one-character strings; every character of the     *)
(* model is ASCII, so a byte offset of the Rust code is a 0-based index    *)
(* into the sequence.                                                      *)
(***************************************************************************)
EXTENDS Integers, Sequences, FiniteSets, TLC

(***************************************************************************)
(* Bounds and configuration                                                *)
(***************************************************************************)

\* TtsConfig.max_chunk_len of the modelled engine instance (the default is
\* DEFAULT_MAX_CHUNK_LEN; the model runs an engine configured with a small one).
max_chunk_len == 12

\* Number of API calls made on the handle in a behaviour.
MaxCalls == 2

\* the largest chunks_completed given to current_sentence
MaxCompleted == 4

\* the longest text given to split_sentences
MaxTextLen == 5

\* the largest number of tokens a text given to split_text is made of
MaxTokens == 5

\* the largest number of samples given to write_wav
MaxSamples == 2

\* the most chunks sent on the PCM channel under observation
MaxBatches == 3

\* the most calls of next() on the source under observation
MaxNext == 7

\* the most chunks a response body is cut into
MaxChunks == 2

\* the most bytes in one chunk of a response body
MaxChunkBytes == 3

\* the most chunks after the RIFF header of a buffer given to parse_wav_header
MaxWavChunks == 2

FETCHER_COUNT == 2

FETCH_QUEUE_CAPACITY == 32

\* DEFAULT_MAX_CHUNK_LEN, which TtsConfig::default() gives to max_chunk_len:
\* the model scales the two together
DEFAULT_MAX_CHUNK_LEN == max_chunk_len

(***************************************************************************)
(* Characters and strings                                                  *)
(***************************************************************************)

\* u8::is_ascii_whitespace: space, tab, line feed, form feed, carriage return
IsAsciiWhitespace(c) == c \in {" ", "\t", "\n", "\f", "\r"}

\* A text is the sequence of its UTF-8 bytes.  An ASCII character is one byte,
\* written as itself; the model's one non-ASCII character is U+00E9 (e with
\* acute), the two bytes 0xC3 0xA9, written "C3" and "A9".
IsContinuation(b) == b = "A9"

\* str::is_char_boundary(index): the start, the end, or the first byte of a
\* character
is_char_boundary(s, index) ==
    \/ index = 0
    \/ index = Len(s)
    \/ index < Len(s) /\ ~IsContinuation(s[index + 1])

\* char::is_alphanumeric, on the characters the model uses (a character is
\* recognised at its first byte)
IsAlphanumeric(c) ==
    c \in {"C3", "a","b","c","d","e","f","g","h","i","j","k","l","m","n","o","p","q",
           "r","s","t","u","v","w","x","y","z",
           "A","B","C","D","E","F","G","H","I","J","K","L","M","N","O","P","Q",
           "R","S","T","U","V","W","X","Y","Z",
           "0","1","2","3","4","5","6","7","8","9"}

\* str::trim_start (the whitespace of the model's characters is ASCII)
TrimStart(s) ==
    IF \A i \in 1..Len(s) : IsAsciiWhitespace(s[i]) THEN <<>>
    ELSE LET k == CHOOSE k \in 1..Len(s) :
                     /\ ~IsAsciiWhitespace(s[k])
                     /\ \A j \in 1..(k-1) : IsAsciiWhitespace(s[j])
         IN SubSeq(s, k, Len(s))

\* str::trim_end
TrimEnd(s) ==
    IF \A i \in 1..Len(s) : IsAsciiWhitespace(s[i]) THEN <<>>
    ELSE LET k == CHOOSE k \in 1..Len(s) :
                     /\ ~IsAsciiWhitespace(s[k])
                     /\ \A j \in (k+1)..Len(s) : IsAsciiWhitespace(s[j])
         IN SubSeq(s, 1, k)

\* str::trim
Trim(s) == TrimEnd(TrimStart(s))

\* str::rfind(pat): the 0-based offset of the last occurrence, -1 for None
Rfind(s, pat) ==
    LET hits == {p \in 0..(Len(s) - Len(pat)) :
                    SubSeq(s, p + 1, p + Len(pat)) = pat}
    IN IF hits = {} THEN -1
       ELSE CHOOSE p \in hits : \A q \in hits : q <= p

\* the Rust slice s[from..to] (0-based, end exclusive)
Slice(s, from, to) == SubSeq(s, from + 1, to)

\* the concatenation of a sequence of sequences
RECURSIVE Flatten(_)
Flatten(seqs) == IF seqs = <<>> THEN <<>> ELSE Head(seqs) \o Flatten(Tail(seqs))

(***************************************************************************)
(* text_prep.rs                                                            *)
(***************************************************************************)

\* word_boundary_or_hard(window, max_len)
word_boundary_or_hard(window, max_len) ==
    LET pos == Rfind(window, <<" ">>)
    IN IF pos >= 0 /\ pos >= max_len \div 3 THEN pos ELSE max_len

\* the body of split_text's while loop: where the window is cut
SplitAt(remaining, max_len) ==
    LET window == Slice(remaining, 0, max_len)
        pos == Rfind(window, <<".", " ">>)
    IN IF pos >= 0 /\ pos >= max_len \div 2 THEN pos + 1
       ELSE word_boundary_or_hard(window, max_len)

RECURSIVE SplitTextLoop(_, _, _)
SplitTextLoop(remaining, result, max_len) ==
    IF Len(remaining) > max_len
    THEN LET split_at == SplitAt(remaining, max_len)
             chunk == TrimEnd(Slice(remaining, 0, split_at))
         IN SplitTextLoop(TrimStart(Slice(remaining, split_at, Len(remaining))),
                          IF chunk # <<>> THEN Append(result, chunk) ELSE result,
                          max_len)
    ELSE IF Len(remaining) >= 2 THEN Append(result, remaining) ELSE result

\* `&remaining[..max_len]` panics when max_len is not a character boundary;
\* the other slices of split_text are cut where rfind found an ASCII pattern
RECURSIVE SplitTextLoopPanics(_, _)
SplitTextLoopPanics(remaining, max_len) ==
    /\ Len(remaining) > max_len
    /\ \/ ~is_char_boundary(remaining, max_len)
       \/ SplitTextLoopPanics(
              TrimStart(Slice(remaining, SplitAt(remaining, max_len), Len(remaining))),
              max_len)

\* whether split_text(text, max_len) panics instead of returning
split_text_panics(text, max_len) == SplitTextLoopPanics(text, max_len)

\* split_text(text, max_len), when it returns
split_text(text, max_len) ==
    IF Len(text) <= max_len THEN <<text>>
    ELSE SplitTextLoop(text, <<>>, max_len)

IsSentenceEnd(c) == c \in {".", "!", "?"}

\* the index after the run of characters satisfying skip, from 0-based i
RECURSIVE SkipNewlines(_, _)
SkipNewlines(text, i) ==
    IF i < Len(text) /\ text[i + 1] = "\n" THEN SkipNewlines(text, i + 1) ELSE i

RECURSIVE SkipBlanks(_, _)
SkipBlanks(text, i) ==
    IF i < Len(text) /\ IsAsciiWhitespace(text[i + 1]) /\ text[i + 1] # "\n"
    THEN SkipBlanks(text, i + 1) ELSE i

PushTrimmed(sentences, chunk) ==
    IF Trim(chunk) # <<>> THEN Append(sentences, Trim(chunk)) ELSE sentences

RECURSIVE SplitSentencesLoop(_, _, _, _)
SplitSentencesLoop(text, i, start, sentences) ==
    LET len == Len(text) IN
    IF i < len
    THEN IF text[i + 1] = "\n" /\ i + 1 < len /\ text[i + 2] = "\n"
         THEN LET j == SkipNewlines(text, i)
              IN SplitSentencesLoop(text, j, j,
                                    PushTrimmed(sentences, Slice(text, start, i)))
         ELSE IF \/ /\ IsSentenceEnd(text[i + 1])
                    /\ i + 1 < len
                    /\ IsAsciiWhitespace(text[i + 2])
                    /\ text[i + 2] # "\n"
                 \/ /\ IsSentenceEnd(text[i + 1])
                    /\ i + 1 < len
                    /\ text[i + 2] = " "
         THEN LET j == SkipBlanks(text, i + 1)
              IN SplitSentencesLoop(text, j, j,
                                    PushTrimmed(sentences, Slice(text, start, i + 1)))
         ELSE SplitSentencesLoop(text, i + 1, start, sentences)
    ELSE IF start < len
         THEN PushTrimmed(sentences, Slice(text, start, len))
         ELSE sentences

\* split_sentences(text)
split_sentences(text) == SplitSentencesLoop(text, 0, 0, <<>>)

\* RE_LEADING_DOT, `^\.\s*` replaced once by nothing: a dot at the start of
\* the text goes with the whitespace after it
StripLeadingDot(c) ==
    IF c # <<>> /\ Head(c) = "." THEN TrimStart(Tail(c)) ELSE c

\* the index after the run of whitespace, from the 0-based i
RECURSIVE SkipWhitespace(_, _)
SkipWhitespace(c, i) ==
    IF i < Len(c) /\ IsAsciiWhitespace(c[i + 1]) THEN SkipWhitespace(c, i + 1) ELSE i

\* RE_DOUBLE_DOT, `\.\s*\.` replaced everywhere by one dot, the matches taken
\* from the left and not overlapping
RECURSIVE CollapseDots(_, _)
CollapseDots(c, i) ==
    IF i >= Len(c) THEN <<>>
    ELSE LET j == SkipWhitespace(c, i + 1)
         IN IF c[i + 1] = "." /\ j < Len(c) /\ c[j + 1] = "."
            THEN <<".">> \o CollapseDots(c, j + 1)
            ELSE <<c[i + 1]>> \o CollapseDots(c, i + 1)

\* RE_MULTI_SPACE, `\s{2,}` replaced everywhere by one space: a run of two or
\* more whitespace characters becomes a space, a single one stays as it is
RECURSIVE CollapseWhitespace(_, _)
CollapseWhitespace(c, i) ==
    IF i >= Len(c) THEN <<>>
    ELSE LET j == SkipWhitespace(c, i)
         IN IF j >= i + 2 THEN <<" ">> \o CollapseWhitespace(c, j)
            ELSE <<c[i + 1]>> \o CollapseWhitespace(c, i + 1)

\* clean_text_for_tts(text) on a text without markdown (no backtick, '|', '*',
\* '#', '[', '-', '_' and no digit): the other replacements find nothing
clean_text_for_tts(text) ==
    Trim(CollapseWhitespace(CollapseDots(StripLeadingDot(text), 0), 0))

(***************************************************************************)
(* SentenceTracker (tracker.rs)                                            *)
(***************************************************************************)

\* Option::None of an index
None == -1

\* simulate_merge, the inner while: the index after the chunks that merge
\* into the chunk of merged_len bytes
RECURSIVE MergeRun(_, _, _, _)
MergeRun(chunks, i, merged_len, max_len) ==
    IF i < Len(chunks) /\ merged_len + 1 + Len(chunks[i + 1]) <= max_len
    THEN MergeRun(chunks, i + 1, merged_len + 1 + Len(chunks[i + 1]), max_len)
    ELSE i

\* simulate_merge, the outer while
RECURSIVE SimulateMergeLoop(_, _, _, _)
SimulateMergeLoop(chunks, i, batched_count, max_len) ==
    IF i < Len(chunks)
    THEN SimulateMergeLoop(chunks, MergeRun(chunks, i + 1, Len(chunks[i + 1]), max_len),
                           batched_count + 1, max_len)
    ELSE batched_count

simulate_merge(chunks, max_len) ==
    IF chunks = <<>> THEN 0 ELSE SimulateMergeLoop(chunks, 0, 0, max_len)

\* into_iter().skip(n)
Skip(seq, n) == SubSeq(seq, n + 1, Len(seq))

\* SentenceTracker::new, the loop over the sentences: the cumulative counts
RECURSIVE ChunkOffsets(_, _)
ChunkOffsets(sentences, total) ==
    IF sentences = <<>> THEN <<>>
    ELSE LET chunks == split_text(Head(sentences), DEFAULT_MAX_CHUNK_LEN)
             next == total + simulate_merge(chunks, DEFAULT_MAX_CHUNK_LEN)
         IN <<next>> \o ChunkOffsets(Tail(sentences), next)

\* SentenceTracker::empty()
empty ==
    [sentences |-> <<>>, chunk_offsets |-> <<>>, total_chunks |-> 0,
     start_index |-> 0, full_text |-> <<>>]

\* SentenceTracker::new panics when split_text does on one of the sentences
SentenceTrackerPanics(full_text, start_index) ==
    LET sentences == Skip(split_sentences(full_text), start_index)
    IN \E i \in 1..Len(sentences) :
           split_text_panics(sentences[i], DEFAULT_MAX_CHUNK_LEN)

\* SentenceTracker::new(full_text, start_index)
SentenceTracker(full_text, start_index) ==
    LET sentences == Skip(split_sentences(full_text), start_index)
        chunk_offsets == ChunkOffsets(sentences, 0)
    IN [sentences |-> sentences,
        chunk_offsets |-> chunk_offsets,
        total_chunks |-> IF chunk_offsets = <<>> THEN 0
                         ELSE chunk_offsets[Len(chunk_offsets)],
        start_index |-> start_index,
        full_text |-> full_text]

\* current_sentence: the loop over chunk_offsets from the 0-based index i
RECURSIVE CurrentSentenceFrom(_, _, _)
CurrentSentenceFrom(t, i, chunks_completed) ==
    IF i >= Len(t.chunk_offsets) THEN None
    ELSE IF chunks_completed < t.chunk_offsets[i + 1] THEN t.start_index + i
    ELSE CurrentSentenceFrom(t, i + 1, chunks_completed)

\* a faulty current_sentence that compares with <= instead of <
CurrentSentenceInclusive(t, chunks_completed) ==
    CurrentSentenceFrom(t, 0, chunks_completed - 1)

\* SentenceTracker::current_sentence
current_sentence(t, chunks_completed) == CurrentSentenceFrom(t, 0, chunks_completed)

(***************************************************************************)
(* wav.rs.  A byte is a number in 0..255.  A u32 is held as its four       *)
(* little-endian bytes, since TLC's integers end at 2^31 - 1.              *)
(***************************************************************************)

\* b"RIFF", b"WAVE", b"fmt ", b"data"
RiffTag == <<82, 73, 70, 70>>
WaveTag == <<87, 65, 86, 69>>
FmtTag == <<102, 109, 116, 32>>
DataTag == <<100, 97, 116, 97>>

\* 0xFFFFFFFF as a u32
SentinelSize == <<255, 255, 255, 255>>

\* v.to_le_bytes() of an n-byte unsigned v; an i16 is given as v % 65536
LeBytes(v, n) == [i \in 1..n |-> (v \div (256 ^ (i - 1))) % 256]

\* u16::from_le_bytes of the two bytes at the 0-based offset
U16At(buf, at) == buf[at + 1] + 256 * buf[at + 2]

\* the four bytes of a u32 at the 0-based offset
U32At(buf, at) == Slice(buf, at, at + 4)

\* sample_rate * 2 overflows u32
ByteRateOverflows(sample_rate) == sample_rate[4] >= 128

\* sample_rate * 2 in wrapping arithmetic
Doubled(sample_rate) ==
    [i \in 1..4 |-> (2 * sample_rate[i]
                     + (IF i > 1 /\ sample_rate[i - 1] >= 128 THEN 1 ELSE 0)) % 256]

\* the sample bytes of write_wav's loop
RECURSIVE SampleBytes(_)
SampleBytes(samples) ==
    IF samples = <<>> THEN <<>>
    ELSE LeBytes(Head(samples) % 65536, 2) \o SampleBytes(Tail(samples))

\* write_wav(samples, sample_rate), when it returns
write_wav(samples, sample_rate) ==
    LET data_len == Len(samples) * 2
        file_len == 36 + data_len
    IN RiffTag \o LeBytes(file_len, 4) \o WaveTag
       \o FmtTag \o LeBytes(16, 4) \o LeBytes(1, 2) \o LeBytes(1, 2)
       \o sample_rate \o Doubled(sample_rate) \o LeBytes(2, 2) \o LeBytes(16, 2)
       \o DataTag \o LeBytes(data_len, 4) \o SampleBytes(samples)

\* Result::Ok and Result::Err
Ok(v) == [tag |-> "Ok", val |-> v]
Err(e) == [tag |-> "Err", val |-> e]

\* channels, sample_rate and bits_per_sample before a fmt chunk was seen
NoFmt == [seen |-> FALSE, channels |-> 0, sample_rate |-> <<0, 0, 0, 0>>,
          bits_per_sample |-> 0]

\* pos += 8 + skip, where skip is the chunk size, or sentinel_skip for
\* 0xFFFFFFFF.  A size of 2^16 or more is past the end of every buffer of
\* the model, and so is the position after it.
Skipped(buf, pos, chunk_size, sentinel_skip) ==
    IF chunk_size = SentinelSize THEN pos + 8 + sentinel_skip
    ELSE IF chunk_size[3] > 0 \/ chunk_size[4] > 0 THEN Len(buf)
    ELSE pos + 8 + chunk_size[1] + 256 * chunk_size[2]

\* parse_wav_header, the while loop
RECURSIVE ParseChunks(_, _, _)
ParseChunks(buf, pos, fmt) ==
    IF pos + 8 <= Len(buf)
    THEN LET chunk_id == Slice(buf, pos, pos + 4)
             chunk_size == U32At(buf, pos + 4)
         IN IF chunk_id = FmtTag
            THEN IF pos + 24 > Len(buf) THEN Err("fmt chunk truncated")
                 ELSE IF U16At(buf, pos + 8) # 1 THEN Err("not PCM format")
                 ELSE ParseChunks(buf, Skipped(buf, pos, chunk_size, 16),
                                  [seen |-> TRUE,
                                   channels |-> U16At(buf, pos + 10),
                                   sample_rate |-> U32At(buf, pos + 12),
                                   bits_per_sample |-> U16At(buf, pos + 22)])
            ELSE IF chunk_id = DataTag
            THEN IF ~fmt.seen THEN Err("data chunk before fmt chunk")
                 ELSE Ok([channels |-> fmt.channels,
                          sample_rate |-> fmt.sample_rate,
                          bits_per_sample |-> fmt.bits_per_sample,
                          data_offset |-> pos + 8])
            ELSE ParseChunks(buf, Skipped(buf, pos, chunk_size, 0), fmt)
    ELSE Err("data chunk not found")

\* a faulty parser that does not look at the WAVE tag
parse_wav_header_any_form(buf) ==
    IF Len(buf) < 12 THEN Err("too short for RIFF header")
    ELSE IF Slice(buf, 0, 4) # RiffTag THEN Err("missing RIFF tag")
    ELSE ParseChunks(buf, 12, NoFmt)

\* parse_wav_header(buf)
parse_wav_header(buf) ==
    IF Len(buf) < 12 THEN Err("too short for RIFF header")
    ELSE IF Slice(buf, 0, 4) # RiffTag THEN Err("missing RIFF tag")
    ELSE IF Slice(buf, 8, 12) # WaveTag THEN Err("missing WAVE tag")
    ELSE ParseChunks(buf, 12, NoFmt)

\* wav[at..at + 4].copy_from_slice(bytes)
Patched(wav, at, bytes) ==
    [i \in 1..Len(wav) |-> IF i > at /\ i <= at + 4 THEN bytes[i - at] ELSE wav[i]]

\* a faulty RIFF size that counts the whole buffer
WholeLength(wav) == LeBytes(Len(wav), 4)

\* the RIFF chunk size fix_wav_sizes writes: total_len - 8
RiffSize(wav) == LeBytes(Len(wav) - 8, 4)

\* fix_wav_sizes, the while loop looking for the data chunk
RECURSIVE PatchData(_, _)
PatchData(wav, pos) ==
    IF pos + 8 <= Len(wav)
    THEN IF Slice(wav, pos, pos + 4) = DataTag
         THEN Patched(wav, pos + 4, LeBytes(Len(wav) - pos - 8, 4))
         ELSE PatchData(wav, Skipped(wav, pos, U32At(wav, pos + 4), 0))
    ELSE wav

\* fix_wav_sizes(wav)
fix_wav_sizes(wav) ==
    IF Len(wav) < 44 THEN wav
    ELSE IF Slice(wav, 0, 4) # RiffTag THEN wav
    ELSE PatchData(Patched(wav, 4, RiffSize(wav)), 12)

\* the buffer as the synthesizer streams it: 0xFFFFFFFF for the RIFF size
\* and for the size of the data chunk that begins at data_offset - 8
WithSentinelSizes(wav, data_offset) ==
    Patched(Patched(wav, 4, SentinelSize), data_offset - 4, SentinelSize)

(***************************************************************************)
(* PCM bytes to samples (tts.rs)                                           *)
(***************************************************************************)

\* i16::from_le_bytes([lo, hi])
I16FromLe(lo, hi) ==
    LET u == lo + 256 * hi IN IF u >= 32768 THEN u - 65536 ELSE u

\* a faulty conversion that forgets the byte left over by the chunk before
bytes_to_i16_forgetful(bytes, leftover) ==
    [samples |-> [i \in 1..(Len(bytes) \div 2) |->
                     I16FromLe(bytes[2 * i - 1], bytes[2 * i])],
     leftover |-> IF Len(bytes) % 2 = 1 THEN bytes[Len(bytes)] ELSE None]

\* bytes_to_i16(bytes, leftover): the samples of the pairs of `slice`, which
\* is the leftover byte, if any, and then the bytes; and the odd byte at the
\* end, if any (None is -1)
bytes_to_i16(bytes, leftover) ==
    LET slice == IF leftover # None THEN <<leftover>> \o bytes ELSE bytes
    IN [samples |-> [i \in 1..(Len(slice) \div 2) |->
                        I16FromLe(slice[2 * i - 1], slice[2 * i])],
        leftover |-> IF Len(slice) % 2 = 1 THEN slice[Len(slice)] ELSE None]

(***************************************************************************)
(* The pipeline state (tts.rs)                                             *)
(***************************************************************************)

VARIABLES
    epoch,          \* TtsEngine.epoch: Arc<AtomicU64>
    stop_pc,        \* where a caller of stop() stands between its three steps
    handle_alive,   \* a TtsEngine handle lives: cmd_tx and its play_cmd_tx
    fn_arg,         \* the argument of the latest call (a text, or a function's input)
    fn_ret,         \* what the latest call returned (0 stands for the unit value)
    tracker,        \* the application's SentenceTracker
    calls,          \* history: the number of calls made on the handle
    last_op,        \* history: the last call made on the handle
    fed,            \* history: the chunks given to stream_chunk for the latest
                    \* stream, and whether stream_end has closed it
    cmdQ,           \* the unbounded Cmd channel (cmd_tx -> cmd_rx)
    status,         \* the watch channel's TtsStatus: state and queue_length
    tp_pc,          \* text_processor_task: position in the handler
    tp_text,        \* ... the text of the command being handled
    tp_epoch,       \* ... current_epoch of the handler
    tp_batch,       \* ... the pieces still to send
    tp_last,        \* ... dispatch_stream_sentences: the tail kept for the buffer
    tp_at,          \* history: the epoch when the command in hand was submitted
    tp_start,       \* history: number of jobs dispatched before this handler
    stream_buffer,  \* text_processor_task: stream_buffer
    stream_epoch,   \* text_processor_task: stream_epoch (None is -1)
    stream_at,      \* history: the epoch when the oldest buffered chunk was submitted
    jobs,           \* every FetchJob sent to the job channel, in send order
    hist,           \* per job: its PCM channel, and history counters
    fetchQ,         \* the bounded job channel: indices into jobs
    lock_holder,    \* the tokio Mutex around fetch_rx: 0, or the fetcher holding it
    dequeued,       \* history: the jobs rx.recv() has returned, in order
    fet,            \* fetcher_task(i): position and locals
    playQ,          \* the PlayCmd channel (play_cmd_tx -> cmd_rx of the thread)
    pb_pc,          \* playback_thread: position ("exited": the audio output
                    \* could not be opened and the thread has returned)
    sink,           \* the rodio Sink: the jobs whose sources it holds, in order
    pb_stops,       \* history: number of PlayCmd::Stop handled (sinks recreated)
    paused,         \* the rodio Sink is paused
    rx,             \* a PCM channel: the chunks in it, and whether its Sender lives
    source,         \* the StreamingSource on that channel: buffer, finished, and
                    \* where a call of next() stands
    sent,           \* history: the chunks sent on the channel, in order
    yielded         \* history: what the calls of next() returned, in order

fnVars == <<fn_arg, fn_ret, tracker>>
apiVars == <<epoch, stop_pc, handle_alive, calls, last_op, fed>>
tpVars == <<tp_pc, tp_text, tp_epoch, tp_batch, tp_last, tp_at, tp_start,
            stream_buffer, stream_epoch, stream_at>>
pbVars == <<pb_pc, sink, pb_stops, paused>>
srcVars == <<rx, source, sent, yielded>>
vars == <<fn_arg, fn_ret, tracker, epoch, stop_pc, handle_alive, calls, last_op,
          fed, cmdQ, status, tp_pc, tp_text, tp_epoch, tp_batch, tp_last, tp_at, tp_start, stream_buffer, stream_epoch,
          stream_at, jobs, hist, fetchQ, lock_holder, dequeued, fet, playQ,
          pb_pc, sink, pb_stops, paused, rx, source, sent, yielded>>

Fetchers == 1..FETCHER_COUNT

\* what stream.next() yields: a chunk of an odd or an even number of bytes,
\* or a stream error
ChunkSizes == {1, 2}
BodyItems == [kind : {"chunk"}, size : ChunkSizes] \cup {[kind |-> "err", size |-> 0]}

IdleFetcher ==
    [pc |-> "lock", job |-> 0, leftover |-> FALSE, pcm_tx |-> FALSE,
     samples |-> 0]

\* what a call leaves in fn_ret: nothing yet, a value, or a panic
NoRet == [kind |-> "none", value |-> 0]
Returned(v) == [kind |-> "value", value |-> v]
Panicked == [kind |-> "panic", value |-> 0]

\* a chunk of PCM data: PcmChunk::Data(samples), PcmChunk::Done
Data(samples) == [kind |-> "Data", samples |-> samples]
Done == [kind |-> "Done", samples |-> <<>>]

\* StreamingSource::new(rx, channels, sample_rate)
NewSource == [buffer |-> <<>>, finished |-> FALSE, pc |-> "idle"]

\* a StreamingSource on a channel just made by std::sync::mpsc::channel()
SourceInit ==
    /\ rx = [items |-> <<>>, connected |-> TRUE]
    /\ source = NewSource
    /\ sent = <<>>
    /\ yielded = <<>>

\* the engine after TtsEngine::new
EngineInit ==
    /\ epoch = 0
    /\ stop_pc = "idle"
    /\ handle_alive = TRUE
    /\ calls = 0
    /\ last_op = "none"
    /\ fed = [chunks |-> <<>>, ended |-> FALSE]
    /\ cmdQ = <<>>
    /\ status = [state |-> "Idle", queue_length |-> 0]
    /\ tp_pc = "recv"
    /\ tp_text = <<>>
    /\ tp_epoch = 0
    /\ tp_batch = <<>>
    /\ tp_last = <<>>
    /\ tp_at = 0
    /\ tp_start = 0
    /\ stream_buffer = <<>>
    /\ stream_epoch = None
    /\ stream_at = 0
    /\ jobs = <<>>
    /\ hist = <<>>
    /\ fetchQ = <<>>
    /\ lock_holder = 0
    /\ dequeued = <<>>
    /\ fet = [f \in Fetchers |-> IdleFetcher]
    /\ playQ = <<>>
    /\ pb_pc \in {"drain", "exited"}
    /\ sink = <<>>
    /\ pb_stops = 0
    /\ paused = FALSE

Init ==
    /\ EngineInit
    /\ fn_arg = <<>>
    /\ fn_ret = NoRet
    /\ tracker = empty
    /\ SourceInit

\* history: how many jobs have been given a rank in the field `field`
Ranked(h, field) == Cardinality({j \in 1..Len(h) : h[j][field] > 0})

\* update_status(tx, f): the closures the code passes
Promote(s) == [s EXCEPT !.state = IF @ = "Idle" THEN "Converting" ELSE @]
AddQueued(s, n) == [s EXCEPT !.queue_length = @ + n]
SetState(s, st) == [s EXCEPT !.state = st]

(***************************************************************************)
(* The engine handle                                                       *)
(***************************************************************************)

\* a call is made on the handle
Call(op) ==
    /\ handle_alive
    /\ calls' = calls + 1
    /\ last_op' = op
    /\ UNCHANGED handle_alive

\* cmd_tx.send(cmd) with the result ignored: the channel has no bound, and
\* the command is lost when the text processor has ended and dropped cmd_rx
SendCmd(cmd) ==
    cmdQ' = IF tp_pc \in {"panicked", "exited"} THEN cmdQ ELSE Append(cmdQ, cmd)

\* TtsEngine::speak, from the cleaned text on
speak(cleaned) ==
    /\ Call("speak")
    /\ fn_arg' = cleaned
    /\ IF Len(cleaned) < 2 \/ ~(\E i \in 1..Len(cleaned) : IsAlphanumeric(cleaned[i]))
       THEN cmdQ' = cmdQ /\ fn_ret' = Returned(0)
       ELSE IF split_text_panics(cleaned, DEFAULT_MAX_CHUNK_LEN)
       THEN cmdQ' = cmdQ /\ fn_ret' = Panicked
       ELSE /\ SendCmd([kind |-> "Speak", text |-> cleaned, at |-> epoch])
            /\ fn_ret' = Returned(Len(split_text(cleaned, DEFAULT_MAX_CHUNK_LEN)))
    /\ UNCHANGED tracker
    /\ UNCHANGED <<epoch, stop_pc, fed, status, tpVars, jobs, hist, fetchQ,
                   lock_holder, dequeued, srcVars, fet, playQ, pbVars>>

\* TtsEngine::stream_chunk
stream_chunk(text) ==
    /\ Call("stream_chunk")
    /\ fed' = [chunks |-> IF fed.ended THEN <<text>> ELSE Append(fed.chunks, text),
               ended |-> FALSE]
    /\ IF text # <<>>
       THEN SendCmd([kind |-> "StreamChunk", text |-> text, at |-> epoch])
       ELSE cmdQ' = cmdQ
    /\ fn_arg' = text
    /\ fn_ret' = Returned(0)
    /\ UNCHANGED tracker
    /\ UNCHANGED <<epoch, stop_pc, status, tpVars, jobs, hist, fetchQ,
                   lock_holder, dequeued, srcVars, fet, playQ, pbVars>>

\* TtsEngine::stream_end
stream_end ==
    /\ Call("stream_end")
    /\ fed' = [fed EXCEPT !.ended = TRUE]
    /\ SendCmd([kind |-> "StreamEnd", text |-> <<>>, at |-> epoch])
    /\ fn_arg' = <<>>
    /\ fn_ret' = Returned(0)
    /\ UNCHANGED tracker
    /\ UNCHANGED <<epoch, stop_pc, status, tpVars, jobs, hist, fetchQ,
                   lock_holder, dequeued, srcVars, fet, playQ, pbVars>>

\* play_cmd_tx.send(cmd) with the result ignored: the std channel has no
\* bound, and the command is lost when the thread has exited
SendPlayCmd(kind) ==
    playQ' = IF pb_pc = "exited" THEN playQ
             ELSE Append(playQ, [kind |-> kind, id |-> 0])

\* a faulty fetch_add that adds two
BumpedTwice(e) == e + 2

\* the epoch after stop()'s fetch_add
Bumped(e) == e + 1

\* TtsEngine::stop, first statement: epoch.fetch_add(1).  One caller at a
\* time is inside stop(); the other calls may come from other threads
\* between its statements.
StopBump ==
    /\ stop_pc = "idle"
    /\ Call("stop")
    /\ epoch' = Bumped(epoch)
    /\ stop_pc' = "cmd"
    /\ fn_arg' = <<>>
    /\ fn_ret' = NoRet
    /\ UNCHANGED tracker
    /\ UNCHANGED <<fed, cmdQ, status, tpVars, jobs, hist, fetchQ, lock_holder, dequeued, srcVars,
                   fet, playQ, pbVars>>

\* TtsEngine::stop, second statement: cmd_tx.send(Cmd::Stop)
StopSendCmd ==
    /\ stop_pc = "cmd"
    /\ SendCmd([kind |-> "Stop", text |-> <<>>, at |-> epoch])
    /\ stop_pc' = "play"
    /\ UNCHANGED fnVars
    /\ UNCHANGED <<epoch, handle_alive, calls, last_op, fed, status, tpVars, jobs, hist,
                   fetchQ, lock_holder, dequeued, srcVars, fet, playQ, pbVars>>

\* TtsEngine::stop, third statement: play_cmd_tx.send(PlayCmd::Stop); the
\* result is ignored, and the command is lost when the thread has exited
StopSendPlay ==
    /\ stop_pc = "play"
    /\ SendPlayCmd("Stop")
    /\ stop_pc' = "idle"
    /\ fn_ret' = Returned(0)
    /\ UNCHANGED fn_arg
    /\ UNCHANGED tracker
    /\ UNCHANGED <<epoch, handle_alive, calls, last_op, fed, cmdQ, status, tpVars, jobs, hist,
                   fetchQ, lock_holder, dequeued, srcVars, fet, pbVars>>

\* TtsEngine::skip
skip ==
    /\ Call("skip")
    /\ SendPlayCmd("Skip")
    /\ fn_arg' = <<>>
    /\ fn_ret' = Returned(0)
    /\ UNCHANGED tracker
    /\ UNCHANGED <<epoch, stop_pc, fed, cmdQ, status, tpVars, jobs, hist, fetchQ,
                   lock_holder, dequeued, srcVars, fet, pbVars>>

\* TtsEngine::pause
pause ==
    /\ Call("pause")
    /\ SendPlayCmd("Pause")
    /\ fn_arg' = <<>>
    /\ fn_ret' = Returned(0)
    /\ UNCHANGED tracker
    /\ UNCHANGED <<epoch, stop_pc, fed, cmdQ, status, tpVars, jobs, hist, fetchQ,
                   lock_holder, dequeued, srcVars, fet, pbVars>>

\* TtsEngine::resume
resume ==
    /\ Call("resume")
    /\ SendPlayCmd("Resume")
    /\ fn_arg' = <<>>
    /\ fn_ret' = Returned(0)
    /\ UNCHANGED tracker
    /\ UNCHANGED <<epoch, stop_pc, fed, cmdQ, status, tpVars, jobs, hist, fetchQ,
                   lock_holder, dequeued, srcVars, fet, pbVars>>

\* TtsEngine::status: a copy of the value in the watch channel
get_status ==
    /\ Call("status")
    /\ fn_arg' = <<>>
    /\ fn_ret' = Returned(status)
    /\ UNCHANGED tracker
    /\ UNCHANGED <<epoch, stop_pc, fed, cmdQ, status, tpVars, jobs, hist, fetchQ,
                   lock_holder, dequeued, srcVars, fet, playQ, pbVars>>

\* the last TtsEngine handle is dropped, no call being under way: cmd_tx and
\* the handle's play_cmd_tx go away
DropHandle ==
    /\ handle_alive
    /\ stop_pc = "idle"
    /\ handle_alive' = FALSE
    /\ UNCHANGED fnVars
    /\ UNCHANGED <<epoch, stop_pc, calls, last_op, fed, cmdQ, status, tpVars, jobs,
                   hist, fetchQ, lock_holder, dequeued, srcVars, fet, playQ,
                   pbVars>>

\* the application builds its tracker: SentenceTracker::new(&text, index)
TrackerNew(full_text, start_index) ==
    /\ Call("new")
    /\ fn_arg' = <<full_text, start_index>>
    /\ IF SentenceTrackerPanics(full_text, start_index)
       THEN fn_ret' = Panicked /\ tracker' = tracker
       ELSE fn_ret' = Returned(0) /\ tracker' = SentenceTracker(full_text, start_index)
    /\ UNCHANGED <<epoch, stop_pc, fed, cmdQ, status, tpVars, jobs, hist, fetchQ,
                   lock_holder, dequeued, srcVars, fet, playQ, pbVars>>

\* the application asks its tracker: tracker.current_sentence(chunks_completed)
CurrentSentence(chunks_completed) ==
    /\ Call("current_sentence")
    /\ fn_arg' = <<chunks_completed>>
    /\ fn_ret' = Returned(current_sentence(tracker, chunks_completed))
    /\ UNCHANGED tracker
    /\ UNCHANGED <<epoch, stop_pc, fed, cmdQ, status, tpVars, jobs, hist, fetchQ,
                   lock_holder, dequeued, srcVars, fet, playQ, pbVars>>

(***************************************************************************)
(* The reader application's commands (commands.rs)                         *)
(***************************************************************************)

\* usize::saturating_sub
SaturatingSub(a, b) == IF a >= b THEN a - b ELSE 0

\* chunks_completed = tracker.total_chunks.saturating_sub(status.queue_length)
ChunksCompleted(t, st) == SaturatingSub(t.total_chunks, st.queue_length)

\* build_status(state): what a command returns to the frontend
build_status(st, t) ==
    [state |-> st.state,
     current_sentence_index |->
         IF st.state # "Idle" THEN current_sentence(t, ChunksCompleted(t, st))
         ELSE None,
     total_sentences |-> t.start_index + Len(t.sentences)]

\* a command whose first engine call is stop() begins: epoch.fetch_add(1).
\* One command at a time runs; pc is where it goes on, fn_arg holds the text
\* and the index it works with.
CommandStops(op, text, index, pc) ==
    /\ stop_pc = "idle"
    /\ Call(op)
    /\ epoch' = Bumped(epoch)
    /\ stop_pc' = pc
    /\ fn_arg' = [text |-> text, index |-> index]
    /\ fn_ret' = NoRet
    /\ UNCHANGED tracker
    /\ UNCHANGED <<fed, cmdQ, status, tpVars, jobs, hist, fetchQ, lock_holder,
                   dequeued, srcVars, fet, playQ, pbVars>>

\* speak_from(text, sentence_index), up to the first statement of stop()
speak_from(text, sentence_index) ==
    CommandStops("speak_from", text, sentence_index, "from_cmd")

\* a faulty tts_skip_sentence that speaks again from the current sentence
SkipToSame(idx) == idx

\* tts_skip_sentence: `Some(idx) => idx + 1`
SkipTo(idx) == idx + 1

\* tts_skip_sentence: the engine's status and the tracker are read; with no
\* current sentence the command returns, else it stops the engine, to clear
\* the tracker when the next index is past the last sentence and to speak
\* from the next index otherwise
tts_skip_sentence ==
    LET idx == current_sentence(tracker, ChunksCompleted(tracker, status))
        next_index == SkipTo(idx)
    IN IF idx = None
       THEN /\ stop_pc = "idle"
            /\ Call("tts_skip_sentence")
            /\ fn_arg' = [text |-> tracker.full_text, index |-> None]
            /\ fn_ret' = Returned(build_status(status, tracker))
            /\ UNCHANGED tracker
            /\ UNCHANGED <<epoch, stop_pc, fed, cmdQ, status, tpVars, jobs, hist,
                           fetchQ, lock_holder, dequeued, srcVars, fet, playQ,
                           pbVars>>
       ELSE CommandStops("tts_skip_sentence", tracker.full_text, next_index,
                         IF next_index >= Len(split_sentences(tracker.full_text))
                         THEN "end_cmd" ELSE "from_cmd")

\* the command's stop(), second statement: cmd_tx.send(Cmd::Stop)
CommandStopSendCmd ==
    /\ stop_pc \in {"from_cmd", "end_cmd"}
    /\ SendCmd([kind |-> "Stop", text |-> <<>>, at |-> epoch])
    /\ stop_pc' = IF stop_pc = "from_cmd" THEN "from_play" ELSE "end_play"
    /\ UNCHANGED fnVars
    /\ UNCHANGED <<epoch, handle_alive, calls, last_op, fed, status, tpVars, jobs,
                   hist, fetchQ, lock_holder, dequeued, srcVars, fet, playQ,
                   pbVars>>

\* the command's stop(), third statement: play_cmd_tx.send(PlayCmd::Stop)
CommandStopSendPlay ==
    /\ stop_pc \in {"from_play", "end_play"}
    /\ SendPlayCmd("Stop")
    /\ stop_pc' = IF stop_pc = "from_play" THEN "from_speak" ELSE "end_clear"
    /\ UNCHANGED fnVars
    /\ UNCHANGED <<epoch, handle_alive, calls, last_op, fed, cmdQ, status, tpVars,
                   jobs, hist, fetchQ, lock_holder, dequeued, srcVars, fet,
                   pbVars>>

\* a faulty join that puts a paragraph break between the sentences
RECURSIVE JoinParagraphs(_)
JoinParagraphs(sentences) ==
    IF sentences = <<>> THEN <<>>
    ELSE IF Len(sentences) = 1 THEN Head(sentences)
    ELSE Head(sentences) \o <<"\n", "\n">> \o JoinParagraphs(Tail(sentences))

\* tracker.sentences.join(" ")
RECURSIVE Join(_)
Join(sentences) ==
    IF sentences = <<>> THEN <<>>
    ELSE IF Len(sentences) = 1 THEN Head(sentences)
    ELSE Head(sentences) \o <<" ">> \o Join(Tail(sentences))

\* speak_from and tts_skip_sentence after their stop(): the tracker is built,
\* its sentences joined are given to TtsEngine::speak, the tracker is stored
\* and the status is built
SpeakFromSpeak ==
    /\ stop_pc = "from_speak"
    /\ stop_pc' = "idle"
    /\ IF SentenceTrackerPanics(fn_arg.text, fn_arg.index)
       THEN fn_ret' = Panicked /\ tracker' = tracker /\ cmdQ' = cmdQ
       ELSE LET built == SentenceTracker(fn_arg.text, fn_arg.index)
                to_speak == Join(built.sentences)
                cleaned == clean_text_for_tts(to_speak)
            IN IF Len(cleaned) < 2
                  \/ ~(\E i \in 1..Len(cleaned) : IsAlphanumeric(cleaned[i]))
               THEN /\ cmdQ' = cmdQ
                    /\ tracker' = built
                    /\ fn_ret' = Returned(build_status(status, built))
               ELSE IF split_text_panics(cleaned, DEFAULT_MAX_CHUNK_LEN)
               THEN fn_ret' = Panicked /\ tracker' = tracker /\ cmdQ' = cmdQ
               ELSE /\ SendCmd([kind |-> "Speak", text |-> cleaned, at |-> epoch])
                    /\ tracker' = built
                    /\ fn_ret' = Returned(build_status(status, built))
    /\ UNCHANGED fn_arg
    /\ UNCHANGED <<epoch, handle_alive, calls, last_op, fed, status, tpVars, jobs,
                   hist, fetchQ, lock_holder, dequeued, srcVars, fet, playQ,
                   pbVars>>

\* tts_skip_sentence past the last sentence, after its stop(): the tracker
\* becomes SentenceTracker::empty() and the status is built
SkipPastEnd ==
    /\ stop_pc = "end_clear"
    /\ stop_pc' = "idle"
    /\ tracker' = empty
    /\ fn_ret' = Returned(build_status(status, empty))
    /\ UNCHANGED fn_arg
    /\ UNCHANGED <<epoch, handle_alive, calls, last_op, fed, cmdQ, status, tpVars,
                   jobs, hist, fetchQ, lock_holder, dequeued, srcVars, fet, playQ,
                   pbVars>>

\* a caller applies split_sentences to the text in fn_arg
SplitSentences ==
    /\ fn_ret = NoRet
    /\ Call("split_sentences")
    /\ fn_ret' = Returned(split_sentences(fn_arg))
    /\ UNCHANGED <<fn_arg, tracker>>
    /\ UNCHANGED <<epoch, stop_pc, fed, cmdQ, status, tpVars, jobs, hist, fetchQ,
                   lock_holder, dequeued, srcVars, fet, playQ, pbVars>>

\* a caller applies split_text to the text and the max_len in fn_arg
SplitText ==
    /\ fn_ret = NoRet
    /\ Call("split_text")
    /\ fn_ret' = IF split_text_panics(fn_arg[1], fn_arg[2]) THEN Panicked
                 ELSE Returned(split_text(fn_arg[1], fn_arg[2]))
    /\ UNCHANGED <<fn_arg, tracker>>
    /\ UNCHANGED <<epoch, stop_pc, fed, cmdQ, status, tpVars, jobs, hist, fetchQ,
                   lock_holder, dequeued, srcVars, fet, playQ, pbVars>>

\* a caller applies write_wav to the samples and the sample rate in fn_arg.
\* `sample_rate * 2` overflows for a rate of 2^31 or more: the call panics in
\* a build with overflow checks and wraps in one without.
WriteWav ==
    /\ last_op = "none"
    /\ Call("write_wav")
    /\ \E overflow_checks \in BOOLEAN :
          IF ByteRateOverflows(fn_arg[2]) /\ overflow_checks
          THEN fn_ret' = Panicked /\ fn_arg' = fn_arg
          ELSE /\ fn_ret' = Returned(write_wav(fn_arg[1], fn_arg[2]))
               /\ fn_arg' = Append(fn_arg, write_wav(fn_arg[1], fn_arg[2]))
    /\ UNCHANGED tracker
    /\ UNCHANGED <<epoch, stop_pc, fed, cmdQ, status, tpVars, jobs, hist, fetchQ,
                   lock_holder, dequeued, srcVars, fet, playQ, pbVars>>

\* the buffer write_wav returned gets the sizes of a streamed response
SentinelSizes ==
    /\ last_op = "write_wav"
    /\ fn_ret.kind = "value"
    /\ Call("sentinel_sizes")
    /\ fn_ret' = Returned(WithSentinelSizes(fn_ret.value, 44))
    /\ UNCHANGED <<fn_arg, tracker>>
    /\ UNCHANGED <<epoch, stop_pc, fed, cmdQ, status, tpVars, jobs, hist, fetchQ,
                   lock_holder, dequeued, srcVars, fet, playQ, pbVars>>

\* a caller applies parse_wav_header to the buffer in hand; fn_arg keeps the
\* buffer given
ParseWavHeader ==
    /\ last_op \in {"write_wav", "sentinel_sizes"}
    /\ fn_ret.kind = "value"
    /\ Call("parse_wav_header")
    /\ fn_arg' = Append(fn_arg, fn_ret.value)
    /\ fn_ret' = Returned(parse_wav_header(fn_ret.value))
    /\ UNCHANGED tracker
    /\ UNCHANGED <<epoch, stop_pc, fed, cmdQ, status, tpVars, jobs, hist, fetchQ,
                   lock_holder, dequeued, srcVars, fet, playQ, pbVars>>

\* a caller applies parse_wav_header to the buffer in fn_arg
ParseBuffer ==
    /\ fn_ret = NoRet
    /\ Call("parse_wav_header")
    /\ fn_ret' = Returned(parse_wav_header(fn_arg))
    /\ UNCHANGED <<fn_arg, tracker>>
    /\ UNCHANGED <<epoch, stop_pc, fed, cmdQ, status, tpVars, jobs, hist, fetchQ,
                   lock_holder, dequeued, srcVars, fet, playQ, pbVars>>

\* a caller applies fix_wav_sizes to the buffer in hand; fn_arg keeps the
\* buffer given
FixWavSizes ==
    /\ last_op \in {"write_wav", "sentinel_sizes"}
    /\ fn_ret.kind = "value"
    /\ Call("fix_wav_sizes")
    /\ fn_arg' = Append(fn_arg, fn_ret.value)
    /\ fn_ret' = Returned(fix_wav_sizes(fn_ret.value))
    /\ UNCHANGED tracker
    /\ UNCHANGED <<epoch, stop_pc, fed, cmdQ, status, tpVars, jobs, hist, fetchQ,
                   lock_holder, dequeued, srcVars, fet, playQ, pbVars>>

\* the fetcher's body loop on the chunks in fn_arg: bytes_to_i16 on the next
\* chunk with the leftover of the one before, `leftover = lo`, and the
\* samples passed on; fn_ret keeps the number of chunks read, the samples
\* passed on so far and the leftover
BytesToI16 ==
    LET before == IF fn_ret = NoRet
                  THEN [read |-> 0, samples |-> <<>>, leftover |-> None]
                  ELSE fn_ret.value
    IN /\ before.read < Len(fn_arg)
       /\ Call("bytes_to_i16")
       /\ LET r == bytes_to_i16(fn_arg[before.read + 1], before.leftover)
          IN fn_ret' = Returned([read |-> before.read + 1,
                                 samples |-> before.samples \o r.samples,
                                 leftover |-> r.leftover])
       /\ UNCHANGED <<fn_arg, tracker>>
       /\ UNCHANGED <<epoch, stop_pc, fed, cmdQ, status, tpVars, jobs, hist, fetchQ,
                      lock_holder, dequeued, srcVars, fet, playQ, pbVars>>

(***************************************************************************)
(* text_processor_task                                                     *)
(***************************************************************************)

\* a faulty chunking rule that never sub-splits a long sentence
Unbatched(sentences) == sentences

\* the chunking rule of the Speak handler and of dispatch_stream_sentences:
\* a sentence of at most max_chunk_len bytes as it is, a longer one sub-split
RECURSIVE Batched(_)
Batched(sentences) ==
    IF sentences = <<>> THEN <<>>
    ELSE (IF Len(Head(sentences)) <= max_chunk_len
          THEN <<Head(sentences)>>
          ELSE split_text(Head(sentences), max_chunk_len))
         \o Batched(Tail(sentences))

\* the stamp the handlers put on a FetchJob
JobEpoch(current_epoch) == current_epoch

\* a faulty send that never waits for room in the channel
SendJobNoWait(text, current_epoch, at) ==
    /\ jobs' = Append(jobs, [text |-> text, epoch |-> JobEpoch(current_epoch),
                             born |-> epoch, at |-> at])
    /\ hist' = Append(hist, [pcm |-> "none", posted |-> 0, appended |-> 0,
                             sampled |-> FALSE, batch_rank |-> 0,
                             append_rank |-> 0, handed |-> <<>>])
    /\ fetchQ' = Append(fetchQ, Len(jobs) + 1)

\* fetch_tx.send(FetchJob { text, epoch }).await: waits while the channel is
\* full.  born, at are history: the epoch at the send, and the epoch when the
\* text was submitted to the handle.
SendJob(text, current_epoch, at) ==
    /\ Len(fetchQ) < FETCH_QUEUE_CAPACITY
    /\ jobs' = Append(jobs, [text |-> text, epoch |-> JobEpoch(current_epoch),
                             born |-> epoch, at |-> at])
    /\ hist' = Append(hist, [pcm |-> "none", posted |-> 0, appended |-> 0,
                             sampled |-> FALSE, batch_rank |-> 0,
                             append_rank |-> 0, handed |-> <<>>])
    /\ fetchQ' = Append(fetchQ, Len(jobs) + 1)

\* back to `while let Some(cmd) = cmd_rx.recv().await`: the handler's locals die
TpReturn ==
    /\ tp_pc' = "recv"
    /\ tp_text' = <<>>
    /\ tp_epoch' = 0
    /\ tp_batch' = <<>>
    /\ tp_last' = <<>>
    /\ tp_at' = 0
    /\ tp_start' = 0

\* the handler panics: the task ends where it stands, and cmd_rx is dropped
TpPanic ==
    /\ tp_pc' = "panicked"
    /\ UNCHANGED <<tp_text, tp_epoch, tp_batch, tp_last, tp_at, tp_start>>

\* split_text panics on one of the sentences longer than max_chunk_len
BatchedPanics(sentences) ==
    \E i \in 1..Len(sentences) :
        /\ Len(sentences[i]) > max_chunk_len
        /\ split_text_panics(sentences[i], max_chunk_len)

TpTake(kind) ==
    /\ tp_pc = "recv"
    /\ cmdQ # <<>>
    /\ Head(cmdQ).kind = kind
    /\ cmdQ' = Tail(cmdQ)

\* Cmd::Speak: recv, epoch.load
TpSpeak ==
    /\ TpTake("Speak")
    /\ tp_text' = Head(cmdQ).text
    /\ tp_at' = Head(cmdQ).at
    /\ tp_epoch' = epoch
    /\ tp_start' = Len(jobs)
    /\ tp_pc' = "speak_status"
    /\ UNCHANGED fnVars
    /\ UNCHANGED <<apiVars, status, tp_batch, tp_last, stream_buffer,
                   stream_epoch, stream_at, jobs, hist, fetchQ, lock_holder, dequeued, srcVars,
                   fet, playQ, pbVars>>

\* Cmd::Speak: split, update_status
TpSpeakStatus ==
    /\ tp_pc = "speak_status"
    /\ LET batched == Batched(split_sentences(tp_text)) IN
        /\ status' = Promote(AddQueued(status, Len(batched)))
        /\ IF batched = <<>>
           THEN TpReturn
           ELSE /\ tp_batch' = batched
                /\ tp_pc' = "speak_send"
                /\ UNCHANGED <<tp_text, tp_epoch, tp_last, tp_at, tp_start>>
    /\ UNCHANGED fnVars
    /\ UNCHANGED <<apiVars, cmdQ, stream_buffer, stream_epoch, stream_at, jobs,
                   hist, fetchQ, lock_holder, dequeued, srcVars, fet, playQ, pbVars>>

\* Cmd::Speak: one iteration of `for text in batched`
TpSpeakSend ==
    /\ tp_pc = "speak_send"
    /\ SendJob(Head(tp_batch), tp_epoch, tp_at)
    /\ IF Tail(tp_batch) = <<>>
       THEN TpReturn
       ELSE /\ tp_batch' = Tail(tp_batch)
            /\ UNCHANGED <<tp_pc, tp_text, tp_epoch, tp_last, tp_at, tp_start>>
    /\ UNCHANGED fnVars
    /\ UNCHANGED <<apiVars, cmdQ, status, stream_buffer, stream_epoch,
                   stream_at, lock_holder, dequeued, srcVars, fet, playQ, pbVars>>

\* Cmd::StreamChunk: recv, and the epoch.load that starts a stream
TpStreamChunk ==
    /\ TpTake("StreamChunk")
    /\ tp_text' = Head(cmdQ).text
    /\ tp_at' = Head(cmdQ).at
    /\ tp_start' = Len(jobs)
    /\ IF stream_epoch = None
       THEN stream_epoch' = epoch /\ tp_pc' = "chunk_status"
       ELSE stream_epoch' = stream_epoch /\ tp_pc' = "chunk_check"
    /\ UNCHANGED fnVars
    /\ UNCHANGED <<apiVars, status, tp_epoch, tp_batch, tp_last, stream_buffer,
                   stream_at, jobs, hist, fetchQ, lock_holder, dequeued, srcVars, fet, playQ,
                   pbVars>>

\* Cmd::StreamChunk: update_status of a stream's first chunk
TpChunkStatus ==
    /\ tp_pc = "chunk_status"
    /\ status' = Promote(status)
    /\ tp_pc' = "chunk_check"
    /\ UNCHANGED fnVars
    /\ UNCHANGED <<apiVars, cmdQ, tp_text, tp_epoch, tp_batch, tp_last, tp_at,
                   tp_start, stream_buffer, stream_epoch, stream_at, jobs, hist,
                   fetchQ, lock_holder, dequeued, srcVars, fet, playQ, pbVars>>

\* dispatch_stream_sentences, force-split: `buffer[..config.max_chunk_len]`
\* panics when max_chunk_len is not a character boundary
ForceSplitPanics(buffer) == ~is_char_boundary(buffer, max_chunk_len)

\* dispatch_stream_sentences, force-split: where the buffer is cut
ForceSplitAt(buffer) ==
    LET pos == Rfind(Slice(buffer, 0, max_chunk_len), <<" ">>)
    IN IF pos >= 0 THEN pos ELSE max_chunk_len

\* a faulty test that never finds the stream stopped
StreamNeverStopped == FALSE

\* `epoch.load(Ordering::SeqCst) != current_epoch` of the StreamChunk handler
StreamStopped == epoch # stream_epoch

\* Cmd::StreamChunk: the stale check, push_str, and dispatch_stream_sentences
\* up to its first update_status
TpChunkCheck ==
    /\ tp_pc = "chunk_check"
    /\ IF StreamStopped
       THEN /\ stream_buffer' = <<>>
            /\ stream_epoch' = None
            /\ stream_at' = 0
            /\ TpReturn
       ELSE LET buffer == stream_buffer \o tp_text
                sentences == split_sentences(buffer)
                bat == IF stream_buffer = <<>> THEN tp_at ELSE stream_at
            IN
            /\ stream_epoch' = stream_epoch
            /\ stream_at' = bat
            /\ IF Len(sentences) <= 1
               THEN IF Len(buffer) >= max_chunk_len * 2
                    THEN IF ForceSplitPanics(buffer)
                         THEN /\ stream_buffer' = buffer
                              /\ TpPanic
                         ELSE
                         LET split_at == ForceSplitAt(buffer)
                             chunk == Trim(Slice(buffer, 0, split_at))
                             tail == TrimStart(Slice(buffer, split_at, Len(buffer)))
                         IN /\ stream_buffer' = tail
                            /\ IF Len(chunk) >= 2
                               THEN /\ tp_batch' = <<chunk>>
                                    /\ tp_epoch' = stream_epoch
                                    /\ tp_at' = bat
                                    /\ tp_pc' = "force_status"
                                    /\ UNCHANGED <<tp_text, tp_last, tp_start>>
                               ELSE TpReturn
                    ELSE /\ stream_buffer' = buffer
                         /\ TpReturn
               ELSE /\ stream_buffer' = buffer
                    /\ IF BatchedPanics(SubSeq(sentences, 1, Len(sentences) - 1))
                       THEN TpPanic
                       ELSE
                       /\ tp_batch' = Batched(SubSeq(sentences, 1, Len(sentences) - 1))
                       /\ tp_last' = sentences[Len(sentences)]
                       /\ tp_epoch' = stream_epoch
                       /\ tp_at' = bat
                       /\ tp_pc' = "disp_status"
                       /\ UNCHANGED <<tp_text, tp_start>>
    /\ UNCHANGED fnVars
    /\ UNCHANGED <<apiVars, cmdQ, status, jobs, hist, fetchQ, lock_holder, dequeued, srcVars, fet,
                   playQ, pbVars>>

\* dispatch_stream_sentences, force-split: update_status
TpForceStatus ==
    /\ tp_pc = "force_status"
    /\ status' = AddQueued(status, 1)
    /\ tp_pc' = "force_send"
    /\ UNCHANGED fnVars
    /\ UNCHANGED <<apiVars, cmdQ, tp_text, tp_epoch, tp_batch, tp_last, tp_at,
                   tp_start, stream_buffer, stream_epoch, stream_at, jobs, hist,
                   fetchQ, lock_holder, dequeued, srcVars, fet, playQ, pbVars>>

\* dispatch_stream_sentences, force-split: fetch_tx.send
TpForceSend ==
    /\ tp_pc = "force_send"
    /\ SendJob(Head(tp_batch), tp_epoch, tp_at)
    /\ TpReturn
    /\ UNCHANGED fnVars
    /\ UNCHANGED <<apiVars, cmdQ, status, stream_buffer, stream_epoch,
                   stream_at, lock_holder, dequeued, srcVars, fet, playQ, pbVars>>

\* dispatch_stream_sentences, complete sentences: update_status
TpDispStatus ==
    /\ tp_pc = "disp_status"
    /\ IF tp_batch # <<>>
       THEN /\ status' = AddQueued(status, Len(tp_batch))
            /\ tp_pc' = "disp_check"
            /\ UNCHANGED <<tp_text, tp_epoch, tp_batch, tp_last, tp_at, tp_start,
                           stream_buffer>>
       ELSE /\ status' = status
            /\ stream_buffer' = tp_last
            /\ TpReturn
    /\ UNCHANGED fnVars
    /\ UNCHANGED <<apiVars, cmdQ, stream_epoch, stream_at, jobs, hist, fetchQ,
                   lock_holder, dequeued, srcVars, fet, playQ, pbVars>>

\* dispatch_stream_sentences, complete sentences: the epoch.load of an iteration
TpDispCheck ==
    /\ tp_pc = "disp_check"
    /\ IF epoch # tp_epoch
       THEN /\ stream_buffer' = tp_last
            /\ TpReturn
       ELSE /\ tp_pc' = "disp_send"
            /\ UNCHANGED <<tp_text, tp_epoch, tp_batch, tp_last, tp_at, tp_start,
                           stream_buffer>>
    /\ UNCHANGED fnVars
    /\ UNCHANGED <<apiVars, cmdQ, status, stream_epoch, stream_at, jobs, hist,
                   fetchQ, lock_holder, dequeued, srcVars, fet, playQ, pbVars>>

\* dispatch_stream_sentences, complete sentences: the send of an iteration,
\* and `*buffer = last` after the last one
TpDispSend ==
    /\ tp_pc = "disp_send"
    /\ SendJob(Head(tp_batch), tp_epoch, tp_at)
    /\ IF Tail(tp_batch) = <<>>
       THEN /\ stream_buffer' = tp_last
            /\ TpReturn
       ELSE /\ tp_batch' = Tail(tp_batch)
            /\ tp_pc' = "disp_check"
            /\ UNCHANGED <<tp_text, tp_epoch, tp_last, tp_at, tp_start,
                           stream_buffer>>
    /\ UNCHANGED fnVars
    /\ UNCHANGED <<apiVars, cmdQ, status, stream_epoch, stream_at, lock_holder, dequeued, srcVars,
                   fet, playQ, pbVars>>

\* Cmd::StreamEnd: recv, stream_epoch.take(), epoch.load, and the flush up to
\* its update_status
TpStreamEnd ==
    /\ TpTake("StreamEnd")
    /\ stream_epoch' = None
    /\ LET remaining == Trim(stream_buffer) IN
       IF /\ stream_epoch # None
          /\ epoch = stream_epoch
          /\ Len(remaining) >= 2
          /\ \E i \in 1..Len(remaining) : IsAlphanumeric(remaining[i])
       THEN IF BatchedPanics(<<remaining>>)
            THEN /\ TpPanic
                 /\ UNCHANGED <<stream_buffer, stream_at>>
            ELSE
            /\ tp_batch' = IF Len(remaining) <= max_chunk_len THEN <<remaining>>
                           ELSE split_text(remaining, max_chunk_len)
            /\ tp_epoch' = stream_epoch
            /\ tp_at' = stream_at
            /\ tp_start' = Len(jobs)
            /\ tp_pc' = "end_status"
            /\ UNCHANGED <<tp_text, tp_last, stream_buffer, stream_at>>
       ELSE /\ stream_buffer' = <<>>
            /\ stream_at' = 0
            /\ TpReturn
    /\ UNCHANGED fnVars
    /\ UNCHANGED <<apiVars, status, jobs, hist, fetchQ, lock_holder, dequeued, srcVars, fet, playQ,
                   pbVars>>

\* Cmd::StreamEnd: update_status
TpEndStatus ==
    /\ tp_pc = "end_status"
    /\ status' = AddQueued(status, Len(tp_batch))
    /\ IF tp_batch = <<>>
       THEN /\ stream_buffer' = <<>>
            /\ stream_at' = 0
            /\ TpReturn
       ELSE /\ tp_pc' = "end_check"
            /\ UNCHANGED <<tp_text, tp_epoch, tp_batch, tp_last, tp_at, tp_start,
                           stream_buffer, stream_at>>
    /\ UNCHANGED fnVars
    /\ UNCHANGED <<apiVars, cmdQ, stream_epoch, jobs, hist, fetchQ, lock_holder, dequeued, srcVars,
                   fet, playQ, pbVars>>

\* Cmd::StreamEnd: the epoch.load of an iteration
TpEndCheck ==
    /\ tp_pc = "end_check"
    /\ IF epoch # tp_epoch
       THEN /\ stream_buffer' = <<>>
            /\ stream_at' = 0
            /\ TpReturn
       ELSE /\ tp_pc' = "end_send"
            /\ UNCHANGED <<tp_text, tp_epoch, tp_batch, tp_last, tp_at, tp_start,
                           stream_buffer, stream_at>>
    /\ UNCHANGED fnVars
    /\ UNCHANGED <<apiVars, cmdQ, status, stream_epoch, jobs, hist, fetchQ,
                   lock_holder, dequeued, srcVars, fet, playQ, pbVars>>

\* Cmd::StreamEnd: the send of an iteration, and stream_buffer.clear() after
\* the last one
TpEndSend ==
    /\ tp_pc = "end_send"
    /\ SendJob(Head(tp_batch), tp_epoch, tp_at)
    /\ IF Tail(tp_batch) = <<>>
       THEN /\ stream_buffer' = <<>>
            /\ stream_at' = 0
            /\ TpReturn
       ELSE /\ tp_batch' = Tail(tp_batch)
            /\ tp_pc' = "end_check"
            /\ UNCHANGED <<tp_text, tp_epoch, tp_last, tp_at, tp_start,
                           stream_buffer, stream_at>>
    /\ UNCHANGED fnVars
    /\ UNCHANGED <<apiVars, cmdQ, status, stream_epoch, lock_holder, dequeued, srcVars, fet, playQ,
                   pbVars>>

\* Cmd::Stop
TpStop ==
    /\ TpTake("Stop")
    /\ stream_buffer' = <<>>
    /\ stream_epoch' = None
    /\ stream_at' = 0
    /\ status' = [state |-> "Idle", queue_length |-> 0]
    /\ UNCHANGED fnVars
    /\ UNCHANGED <<apiVars, tp_pc, tp_text, tp_epoch, tp_batch, tp_last, tp_at,
                   tp_start, jobs, hist, fetchQ, lock_holder, dequeued, srcVars, fet, playQ, pbVars>>

\* cmd_rx.recv() returns None: every command has been handled and every
\* Sender is gone; the task returns and fetch_tx is dropped
TpExit ==
    /\ tp_pc = "recv"
    /\ cmdQ = <<>>
    /\ ~handle_alive
    /\ tp_pc' = "exited"
    /\ UNCHANGED fnVars
    /\ UNCHANGED <<apiVars, cmdQ, status, tp_text, tp_epoch, tp_batch, tp_last,
                   tp_at, tp_start, stream_buffer, stream_epoch, stream_at, jobs,
                   hist, fetchQ, lock_holder, dequeued, srcVars, fet, playQ,
                   pbVars>>

(***************************************************************************)
(* fetcher_task                                                            *)
(***************************************************************************)

SetFet(f, rec) == fet' = [fet EXCEPT ![f] = rec]

\* a faulty lock that is granted while another fetcher holds it
FLockUnguarded(f) ==
    /\ fet[f].pc = "lock"
    /\ lock_holder' = f
    /\ SetFet(f, [fet[f] EXCEPT !.pc = "recv"])
    /\ UNCHANGED fnVars
    /\ UNCHANGED <<apiVars, cmdQ, status, tpVars, jobs, hist, fetchQ, dequeued, srcVars,
                   playQ, pbVars>>

\* `fetch_rx.lock().await`
FLock(f) ==
    /\ fet[f].pc = "lock"
    /\ lock_holder = 0
    /\ lock_holder' = f
    /\ SetFet(f, [fet[f] EXCEPT !.pc = "recv"])
    /\ UNCHANGED fnVars
    /\ UNCHANGED <<apiVars, cmdQ, status, tpVars, jobs, hist, fetchQ, dequeued, srcVars,
                   playQ, pbVars>>

\* a faulty dequeue that never releases the lock
FRecvHoldingLock(f) ==
    /\ fet[f].pc = "recv"
    /\ lock_holder = f
    /\ fetchQ # <<>>
    /\ fetchQ' = Tail(fetchQ)
    /\ lock_holder' = lock_holder
    /\ dequeued' = Append(dequeued, Head(fetchQ))
    /\ UNCHANGED srcVars
    /\ SetFet(f, [fet[f] EXCEPT !.pc = "check_job", !.job = Head(fetchQ)])
    /\ UNCHANGED fnVars
    /\ UNCHANGED <<apiVars, cmdQ, status, tpVars, jobs, hist, playQ, pbVars>>

\* `rx.recv().await` under the lock, which is released at the end of the block
FRecv(f) ==
    /\ fet[f].pc = "recv"
    /\ lock_holder = f
    /\ fetchQ # <<>>
    /\ fetchQ' = Tail(fetchQ)
    /\ lock_holder' = 0
    /\ dequeued' = Append(dequeued, Head(fetchQ))
    /\ UNCHANGED srcVars
    /\ SetFet(f, [fet[f] EXCEPT !.pc = "check_job", !.job = Head(fetchQ)])
    /\ UNCHANGED fnVars
    /\ UNCHANGED <<apiVars, cmdQ, status, tpVars, jobs, hist, playQ, pbVars>>

\* job.epoch != epoch.load(): the test the three checkpoints make
Stale(f) == jobs[fet[f].job].epoch # epoch

\* the first checkpoint: a stale job is discarded
FCheckJob(f) ==
    /\ fet[f].pc = "check_job"
    /\ IF Stale(f)
       THEN SetFet(f, IdleFetcher)
       ELSE SetFet(f, [fet[f] EXCEPT !.pc = "post"])
    /\ UNCHANGED fnVars
    /\ UNCHANGED <<apiVars, cmdQ, status, tpVars, jobs, hist, fetchQ,
                   lock_holder, dequeued, srcVars, playQ, pbVars>>

\* update_status (Idle -> Converting), and the POST is sent
FPost(f) ==
    /\ fet[f].pc = "post"
    /\ status' = Promote(status)
    /\ hist' = [hist EXCEPT ![fet[f].job].posted = @ + 1]
    /\ SetFet(f, [fet[f] EXCEPT !.pc = "await_resp"])
    /\ UNCHANGED fnVars
    /\ UNCHANGED <<apiVars, cmdQ, tpVars, jobs, fetchQ, lock_holder, dequeued, srcVars, playQ,
                   pbVars>>

\* what the fetcher does with a response that is not a success, or with a
\* failed request: `continue`
OnFailure(f) ==
    /\ SetFet(f, IdleFetcher)
    /\ status' = status

\* `client.post(..).send().await` returns a success, a non-2xx status or an
\* error; after a success the second checkpoint discards a stale response
FResponse(f) ==
    /\ fet[f].pc = "await_resp"
    /\ \E outcome \in {"success", "status_error", "request_error"} :
          IF outcome = "success"
          THEN /\ IF Stale(f)
                  THEN SetFet(f, IdleFetcher)
                  ELSE SetFet(f, [fet[f] EXCEPT !.pc = "stream"])
               /\ status' = status
          ELSE OnFailure(f)
    /\ UNCHANGED fnVars
    /\ UNCHANGED <<apiVars, cmdQ, tpVars, jobs, hist, fetchQ, lock_holder, dequeued, srcVars,
                   playQ, pbVars>>

\* bytes_to_i16(&chunk, leftover), by sizes: the number of samples returned,
\* and whether a byte is left over
SampleCount(size, leftover) == (size + (IF leftover THEN 1 ELSE 0)) \div 2
LeftOver(size, leftover) == (size + (IF leftover THEN 1 ELSE 0)) % 2 = 1

\* the samples of a batch, by number: bytes_to_i16 gives the fetcher n samples
Batch(n) == [i \in 1..n |-> i]

\* a faulty test that creates the source on the first chunk, samples or not
CreatesSourceOnAnyChunk(pcm_tx, n) == ~pcm_tx

\* `pcm_tx.is_none() && !samples.is_empty()`
CreatesSource(pcm_tx, n) == ~pcm_tx /\ n > 0

\* `stream.next().await` yields a chunk or a stream error: the third
\* checkpoint, the error, and bytes_to_i16
FChunk(f) ==
    /\ fet[f].pc = "stream"
    /\ \E item \in BodyItems :
          IF Stale(f) \/ item.kind = "err"
          THEN /\ SetFet(f, [fet[f] EXCEPT !.pc = "finish"])
               /\ hist' = hist
          ELSE LET n == SampleCount(item.size, fet[f].leftover)
                   lo == LeftOver(item.size, fet[f].leftover)
               IN IF CreatesSource(fet[f].pcm_tx, n)
                  THEN /\ SetFet(f, [fet[f] EXCEPT !.pc = "send_play",
                                                   !.leftover = lo,
                                                   !.samples = n])
                       /\ hist' = [hist EXCEPT ![fet[f].job].sampled = TRUE,
                                                ![fet[f].job].batch_rank =
                                                    Ranked(hist, "batch_rank") + 1]
                  ELSE /\ SetFet(f, [fet[f] EXCEPT
                                        !.pc = IF n > 0 THEN "send_data" ELSE "stream",
                                        !.leftover = lo,
                                        !.samples = n])
                       /\ hist' = hist
    /\ UNCHANGED fnVars
    /\ UNCHANGED <<apiVars, cmdQ, status, tpVars, jobs, fetchQ, lock_holder, dequeued, srcVars,
                   playQ, pbVars>>

\* `stream.next().await` yields None: the body has ended
FBodyEnd(f) ==
    /\ fet[f].pc = "stream"
    /\ SetFet(f, [fet[f] EXCEPT !.pc = "finish"])
    /\ UNCHANGED fnVars
    /\ UNCHANGED <<apiVars, cmdQ, status, tpVars, jobs, hist, fetchQ,
                   lock_holder, dequeued, srcVars, playQ, pbVars>>

\* the first non-empty batch: the source is created with the batch in its
\* channel and sent as PlayStream; the send fails when the thread has exited
FSendPlay(f) ==
    /\ fet[f].pc = "send_play"
    /\ IF pb_pc = "exited"
       THEN /\ SetFet(f, [fet[f] EXCEPT !.pc = "finish", !.samples = 0])
            /\ UNCHANGED <<playQ, hist>>
       ELSE /\ playQ' = Append(playQ, [kind |-> "PlayStream", id |-> fet[f].job])
            /\ hist' = [hist EXCEPT ![fet[f].job].pcm = "open",
                                    ![fet[f].job].handed =
                                        <<Data(Batch(fet[f].samples))>>]
            /\ SetFet(f, [fet[f] EXCEPT !.pc = "stream", !.pcm_tx = TRUE,
                                        !.samples = 0])
    /\ UNCHANGED fnVars
    /\ UNCHANGED <<apiVars, cmdQ, status, tpVars, jobs, fetchQ, lock_holder, dequeued, srcVars,
                   pbVars>>

\* a later non-empty batch: tx.send(Data) fails when the source was dropped
FSendData(f) ==
    /\ fet[f].pc = "send_data"
    /\ IF hist[fet[f].job].pcm = "dropped"
       THEN SetFet(f, [fet[f] EXCEPT !.pc = "finish", !.samples = 0])
       ELSE SetFet(f, [fet[f] EXCEPT !.pc = "stream", !.samples = 0])
    /\ UNCHANGED fnVars
    /\ UNCHANGED <<apiVars, cmdQ, status, tpVars, jobs, hist, fetchQ,
                   lock_holder, dequeued, srcVars, playQ, pbVars>>

\* a faulty end of the job that keeps the Sender and sends no Done
FFinishKeepsSender(f) ==
    /\ fet[f].pc = "finish"
    /\ hist' = hist
    /\ status' = [status EXCEPT !.queue_length = IF @ > 0 THEN @ - 1 ELSE 0]
    /\ SetFet(f, IdleFetcher)
    /\ UNCHANGED fnVars
    /\ UNCHANGED <<apiVars, cmdQ, tpVars, jobs, fetchQ, lock_holder, dequeued,
                   srcVars, playQ, pbVars>>

\* after the body loop: Done to the source, queue_length.saturating_sub(1)
FFinish(f) ==
    /\ fet[f].pc = "finish"
    /\ hist' = IF fet[f].pcm_tx /\ hist[fet[f].job].pcm = "open"
               THEN [hist EXCEPT ![fet[f].job].pcm = "done"]
               ELSE hist
    /\ status' = [status EXCEPT !.queue_length = IF @ > 0 THEN @ - 1 ELSE 0]
    /\ SetFet(f, IdleFetcher)
    /\ UNCHANGED fnVars
    /\ UNCHANGED <<apiVars, cmdQ, tpVars, jobs, fetchQ, lock_holder, dequeued, srcVars, playQ,
                   pbVars>>

\* the job channel is closed: its Sender went away with the text processor
JobChannelClosed == tp_pc \in {"exited", "panicked"}

\* a faulty exit that keeps the lock on the receiver
FExitHoldingLock(f) ==
    /\ fet[f].pc = "recv"
    /\ lock_holder = f
    /\ fetchQ = <<>>
    /\ JobChannelClosed
    /\ lock_holder' = lock_holder
    /\ SetFet(f, [fet[f] EXCEPT !.pc = "exited"])
    /\ UNCHANGED fnVars
    /\ UNCHANGED <<apiVars, cmdQ, status, tpVars, jobs, hist, fetchQ, dequeued,
                   srcVars, playQ, pbVars>>

\* `rx.recv().await` returns None on the empty, closed channel: the lock is
\* released, the loop breaks, and the fetcher's play_cmd_tx is dropped
FExit(f) ==
    /\ fet[f].pc = "recv"
    /\ lock_holder = f
    /\ fetchQ = <<>>
    /\ JobChannelClosed
    /\ lock_holder' = 0
    /\ SetFet(f, [fet[f] EXCEPT !.pc = "exited"])
    /\ UNCHANGED fnVars
    /\ UNCHANGED <<apiVars, cmdQ, status, tpVars, jobs, hist, fetchQ, dequeued,
                   srcVars, playQ, pbVars>>

(***************************************************************************)
(* playback_thread and the audio output                                    *)
(***************************************************************************)

\* the sources of `ids` are dropped: their PCM receivers go away
DropSources(h, ids) ==
    [i \in 1..Len(h) |-> IF i \in ids THEN [h[i] EXCEPT !.pcm = "dropped"] ELSE h[i]]

\* the top of the loop: `if sink.empty()` Playing -> Idle
PbDrain ==
    /\ pb_pc = "drain"
    /\ status' = IF sink = <<>> /\ status.state = "Playing"
                 THEN SetState(status, "Idle") ELSE status
    /\ pb_pc' = "recv"
    /\ UNCHANGED fnVars
    /\ UNCHANGED <<apiVars, cmdQ, tpVars, jobs, hist, fetchQ, lock_holder, dequeued, srcVars, fet,
                   playQ, sink, pb_stops, paused>>

\* cmd_rx.recv() returns PlayStream(source)
PbPlayStream ==
    /\ pb_pc = "recv"
    /\ playQ # <<>>
    /\ Head(playQ).kind = "PlayStream"
    /\ playQ' = Tail(playQ)
    /\ sink' = Append(sink, Head(playQ).id)
    /\ hist' = [hist EXCEPT ![Head(playQ).id].appended = @ + 1,
                            ![Head(playQ).id].append_rank =
                                Ranked(hist, "append_rank") + 1]
    /\ status' = SetState(status, "Playing")
    /\ pb_pc' = "drain"
    /\ UNCHANGED fnVars
    /\ UNCHANGED <<apiVars, cmdQ, tpVars, jobs, fetchQ, lock_holder, dequeued, srcVars, fet,
                   pb_stops, paused>>

\* cmd_rx.recv() returns Stop: the sink is stopped and replaced
PbStop ==
    /\ pb_pc = "recv"
    /\ playQ # <<>>
    /\ Head(playQ).kind = "Stop"
    /\ playQ' = Tail(playQ)
    /\ hist' = DropSources(hist, {sink[i] : i \in 1..Len(sink)})
    /\ sink' = <<>>
    /\ pb_stops' = pb_stops + 1
    /\ paused' = FALSE
    /\ status' = SetState(status, "Idle")
    /\ pb_pc' = "drain"
    /\ UNCHANGED fnVars
    /\ UNCHANGED <<apiVars, cmdQ, tpVars, jobs, fetchQ, lock_holder, dequeued, srcVars, fet>>

\* a faulty handling of Skip that drops every source of the sink
PbSkipAll ==
    /\ pb_pc = "recv"
    /\ playQ # <<>>
    /\ Head(playQ).kind = "Skip"
    /\ playQ' = Tail(playQ)
    /\ sink' = <<>>
    /\ hist' = DropSources(hist, {sink[i] : i \in 1..Len(sink)})
    /\ status' = SetState(status, "Idle")
    /\ pb_pc' = "drain"
    /\ UNCHANGED fnVars
    /\ UNCHANGED <<apiVars, cmdQ, tpVars, jobs, fetchQ, lock_holder, dequeued, srcVars, fet,
                   pb_stops, paused>>

\* cmd_rx.recv() returns Skip: sink.skip_one() has the audio output drop the
\* front source, and sink.empty() right after it sees the sink with or without
\* that source
PbSkip ==
    /\ pb_pc = "recv"
    /\ playQ # <<>>
    /\ Head(playQ).kind = "Skip"
    /\ playQ' = Tail(playQ)
    /\ sink' = IF sink = <<>> THEN sink ELSE Tail(sink)
    /\ hist' = IF sink = <<>> THEN hist ELSE DropSources(hist, {Head(sink)})
    /\ \E drained \in (IF sink = <<>> THEN {TRUE}
                       ELSE IF Len(sink) = 1 THEN {TRUE, FALSE} ELSE {FALSE}) :
          status' = IF drained THEN SetState(status, "Idle") ELSE status
    /\ pb_pc' = "drain"
    /\ UNCHANGED fnVars
    /\ UNCHANGED <<apiVars, cmdQ, tpVars, jobs, fetchQ, lock_holder, dequeued, srcVars, fet,
                   pb_stops, paused>>

\* cmd_rx.recv() returns Pause or Resume: sink.pause(), sink.play()
PbPauseResume ==
    /\ pb_pc = "recv"
    /\ playQ # <<>>
    /\ Head(playQ).kind \in {"Pause", "Resume"}
    /\ playQ' = Tail(playQ)
    /\ paused' = (Head(playQ).kind = "Pause")
    /\ pb_pc' = "drain"
    /\ UNCHANGED fnVars
    /\ UNCHANGED <<apiVars, cmdQ, status, tpVars, jobs, hist, fetchQ,
                   lock_holder, dequeued, srcVars, fet, sink, pb_stops>>

\* every Sender of the PlayCmd channel is gone: the handle's and the fetchers'
PlayChannelClosed == ~handle_alive /\ \A f \in Fetchers : fet[f].pc = "exited"

\* cmd_rx.recv() returns Err on the empty, closed channel: sink.stop(), break
PbExit ==
    /\ pb_pc = "recv"
    /\ playQ = <<>>
    /\ PlayChannelClosed
    /\ hist' = DropSources(hist, {sink[i] : i \in 1..Len(sink)})
    /\ sink' = <<>>
    /\ pb_pc' = "exited"
    /\ UNCHANGED fnVars
    /\ UNCHANGED <<apiVars, cmdQ, status, tpVars, jobs, fetchQ, lock_holder,
                   dequeued, srcVars, fet, playQ, pb_stops, paused>>

\* the audio output has played the front source to its end: its channel
\* delivered Done, and the sink drops it; a paused sink plays nothing
SourceEnds ==
    /\ sink # <<>>
    /\ ~paused
    /\ hist[Head(sink)].pcm = "done"
    /\ sink' = Tail(sink)
    /\ hist' = DropSources(hist, {Head(sink)})
    /\ UNCHANGED fnVars
    /\ UNCHANGED <<apiVars, cmdQ, status, tpVars, jobs, fetchQ, lock_holder, dequeued, srcVars,
                   fet, playQ, pb_pc, pb_stops, paused>>

(***************************************************************************)
(* StreamingSource                                                         *)
(***************************************************************************)

\* what next() returns: Some(sample) from the buffer, Some(0) to keep the
\* output alive, None
Sample(v) == [kind |-> "sample", value |-> v]
Silence == [kind |-> "silence", value |-> 0]
EndOfSequence == [kind |-> "end", value |-> 0]

\* fill_buffer: `while let Ok(chunk) = self.rx.try_recv()`, on the chunks in
\* the channel: Data extends the buffer, Done sets finished and returns
RECURSIVE Drain(_, _)
Drain(self, items) ==
    IF items = <<>>
    THEN [self |-> self, items |-> items]
    ELSE IF Head(items).kind = "Done"
         THEN [self |-> [self EXCEPT !.finished = TRUE], items |-> Tail(items)]
         ELSE Drain([self EXCEPT !.buffer = @ \o Head(items).samples],
                    Tail(items))

\* fill_buffer blocks in recv_timeout: the buffer is still empty and the
\* source is not finished
Blocks(self) == self.buffer = <<>> /\ ~self.finished

\* rx.recv_timeout(10ms) on a channel: the chunk at its head, Disconnected
\* when it is empty and the Sender is gone, Timeout otherwise
RecvTimeout(self, chan) ==
    IF chan.items # <<>>
    THEN IF Head(chan.items).kind = "Done"
         THEN [self EXCEPT !.finished = TRUE]
         ELSE [self EXCEPT !.buffer = @ \o Head(chan.items).samples]
    ELSE IF ~chan.connected
         THEN [self EXCEPT !.finished = TRUE]
         ELSE self

\* the end of next(): pop_front, or None when finished, or Some(0)
Yield(self) ==
    IF self.buffer # <<>> THEN Sample(Head(self.buffer))
    ELSE IF self.finished THEN EndOfSequence
    ELSE Silence

\* a faulty return that leaves the sample in the buffer
Peeked(self) == [self EXCEPT !.pc = "idle"]

\* the source after that return
Popped(self) ==
    [self EXCEPT !.buffer = IF @ = <<>> THEN @ ELSE Tail(@), !.pc = "idle"]

\* the batches a Sender sends: one sample, two samples the first of which
\* is a real zero
Batches == {<<7>>, <<0, -3>>}

\* tx.send(PcmChunk::Data(samples)) by the holder of the Sender
TxSendData(samples) ==
    /\ rx.connected
    /\ Len(sent) < MaxBatches
    /\ rx' = [rx EXCEPT !.items = Append(@, Data(samples))]
    /\ sent' = Append(sent, Data(samples))
    /\ UNCHANGED <<source, yielded>>
    /\ UNCHANGED fnVars
    /\ UNCHANGED <<apiVars, cmdQ, status, tpVars, jobs, hist, fetchQ,
                   lock_holder, dequeued, fet, playQ, pbVars>>

\* `if let Some(tx) = pcm_tx.take() { let _ = tx.send(PcmChunk::Done); }`:
\* Done is sent and the Sender goes out of scope
TxSendDone ==
    /\ rx.connected
    /\ rx' = [items |-> Append(rx.items, Done), connected |-> FALSE]
    /\ sent' = Append(sent, Done)
    /\ UNCHANGED <<source, yielded>>
    /\ UNCHANGED fnVars
    /\ UNCHANGED <<apiVars, cmdQ, status, tpVars, jobs, hist, fetchQ,
                   lock_holder, dequeued, fet, playQ, pbVars>>

\* the Sender is dropped without Done
TxDrop ==
    /\ rx.connected
    /\ rx' = [rx EXCEPT !.connected = FALSE]
    /\ UNCHANGED <<source, sent, yielded>>
    /\ UNCHANGED fnVars
    /\ UNCHANGED <<apiVars, cmdQ, status, tpVars, jobs, hist, fetchQ,
                   lock_holder, dequeued, fet, playQ, pbVars>>

\* next() that never waits: what the channel lacks is made up with silence
NextWithoutWait ==
    /\ source.pc = "idle"
    /\ Len(yielded) < MaxNext
    /\ LET d == IF source.buffer = <<>> /\ ~source.finished
                THEN Drain(source, rx.items)
                ELSE [self |-> source, items |-> rx.items]
       IN /\ rx' = [rx EXCEPT !.items = d.items]
          /\ yielded' = Append(yielded, Yield(d.self))
          /\ source' = Popped(d.self)
    /\ UNCHANGED sent
    /\ UNCHANGED fnVars
    /\ UNCHANGED <<apiVars, cmdQ, status, tpVars, jobs, hist, fetchQ,
                   lock_holder, dequeued, fet, playQ, pbVars>>

\* next() up to its return or to recv_timeout: a buffered sample is popped,
\* a finished source returns None, otherwise fill_buffer drains the channel
NextBegin ==
    /\ source.pc = "idle"
    /\ Len(yielded) < MaxNext
    /\ LET d == IF source.buffer = <<>> /\ ~source.finished
                THEN Drain(source, rx.items)
                ELSE [self |-> source, items |-> rx.items]
       IN /\ rx' = [rx EXCEPT !.items = d.items]
          /\ IF source.buffer = <<>> /\ ~source.finished /\ Blocks(d.self)
             THEN /\ source' = [d.self EXCEPT !.pc = "wait"]
                  /\ yielded' = yielded
             ELSE /\ yielded' = Append(yielded, Yield(d.self))
                  /\ source' = Popped(d.self)
    /\ UNCHANGED sent
    /\ UNCHANGED fnVars
    /\ UNCHANGED <<apiVars, cmdQ, status, tpVars, jobs, hist, fetchQ,
                   lock_holder, dequeued, fet, playQ, pbVars>>

\* recv_timeout returns, and next() with it
NextWait ==
    /\ source.pc = "wait"
    /\ LET self == RecvTimeout(source, rx)
       IN /\ rx' = [rx EXCEPT !.items = IF @ = <<>> THEN @ ELSE Tail(@)]
          /\ yielded' = Append(yielded, Yield(self))
          /\ source' = Popped(self)
    /\ UNCHANGED sent
    /\ UNCHANGED fnVars
    /\ UNCHANGED <<apiVars, cmdQ, status, tpVars, jobs, hist, fetchQ,
                   lock_holder, dequeued, fet, playQ, pbVars>>

(***************************************************************************)
(* Specifications                                                          *)
(***************************************************************************)

\* "Hi."
OneSentence == <<"H", "i", ".">>

\* "Hi. Yo": a complete sentence and a tail
TwoSentences == <<"H", "i", ".", " ", "Y", "o">>

SpeakTexts == {OneSentence}
ChunkTexts == {TwoSentences}

SpeakHandler == TpSpeak \/ TpSpeakStatus \/ TpSpeakSend

StreamHandlers ==
    \/ TpStreamChunk \/ TpChunkStatus \/ TpChunkCheck
    \/ TpDispStatus \/ TpDispCheck \/ TpDispSend
    \/ TpStreamEnd \/ TpEndStatus \/ TpEndCheck \/ TpEndSend

ForceSplit == TpForceStatus \/ TpForceSend

Fetcher(f) ==
    \/ FLock(f) \/ FRecv(f) \/ FCheckJob(f) \/ FPost(f) \/ FResponse(f)
    \/ FChunk(f) \/ FBodyEnd(f) \/ FSendPlay(f) \/ FSendData(f) \/ FFinish(f)

Playback == PbDrain \/ PbPlayStream \/ SourceEnds

\* The engine under every call of speak, stream_chunk, stream_end and stop.
Next ==
    \/ /\ calls < MaxCalls
       /\ \/ \E t \in SpeakTexts : speak(t)
          \/ \E t \in ChunkTexts : stream_chunk(t)
          \/ stream_end
          \/ StopBump
    \/ StopSendCmd \/ StopSendPlay
    \/ SpeakHandler \/ StreamHandlers \/ TpStop
    \/ \E f \in Fetchers : Fetcher(f)
    \/ Playback \/ PbStop

Spec == Init /\ [][Next]_vars

\* The engine when stop() is never called, with the scheduling the runtime
\* gives: every task that can take a step eventually takes one, and a
\* response body ends.
NextNoStop ==
    \/ /\ calls < MaxCalls
       /\ \/ \E t \in SpeakTexts : speak(t)
          \/ \E t \in ChunkTexts : stream_chunk(t)
          \/ stream_end
    \/ SpeakHandler \/ StreamHandlers
    \/ \E f \in Fetchers : Fetcher(f)
    \/ Playback

Fairness ==
    /\ WF_vars(SpeakHandler \/ StreamHandlers)
    /\ \A f \in Fetchers :
          /\ WF_vars(FLock(f) \/ FRecv(f) \/ FCheckJob(f) \/ FPost(f)
                        \/ FResponse(f) \/ FSendPlay(f) \/ FSendData(f)
                        \/ FFinish(f))
          /\ SF_vars(FBodyEnd(f))
    /\ WF_vars(PbDrain \/ PbPlayStream)
    /\ WF_vars(SourceEnds)

FairSpec == Init /\ [][NextNoStop]_vars /\ Fairness

\* "Hello world. How are you?"
HelloHow ==
    <<"H", "e", "l", "l", "o", " ", "w", "o", "r", "l", "d", ".", " ",
      "H", "o", "w", " ", "a", "r", "e", " ", "y", "o", "u", "?">>

\* "aaaa bbbb cccc dddd.": a sentence longer than max_chunk_len
LongSentence ==
    <<"a", "a", "a", "a", " ", "b", "b", "b", "b", " ", "c", "c", "c", "c", " ",
      "d", "d", "d", "d", ".">>

\* The engine speaking one text of several pieces, with stop() called while
\* the text is processed.
NextSpeak ==
    \/ calls = 0 /\ \E t \in {HelloHow, LongSentence} : speak(t)
    \/ calls < MaxCalls /\ StopBump
    \/ StopSendCmd \/ StopSendPlay
    \/ SpeakHandler \/ TpStop
    \/ \E f \in Fetchers : Fetcher(f)
    \/ Playback \/ PbStop

SpecSpeak == Init /\ [][NextSpeak]_vars

\* the chunks of a token stream: "Hi ", "there. How ", "are you?"
HiThereHow ==
    << <<"H", "i", " ">>,
       <<"t", "h", "e", "r", "e", ".", " ", "H", "o", "w", " ">>,
       <<"a", "r", "e", " ", "y", "o", "u", "?">> >>

\* "aaaa bbbb cccc dddd eeee ff": no sentence end, more than
\* 2 * max_chunk_len bytes
Unpunctuated ==
    <<"a", "a", "a", "a", " ", "b", "b", "b", "b", " ", "c", "c", "c", "c", " ",
      "d", "d", "d", "d", " ", "e", "e", "e", "e", " ", "f", "f">>

Streams == {HiThereHow, <<Unpunctuated>>, <<TwoSentences, OneSentence>>}

\* One stream, fed chunk by chunk and then ended, stop() never called.
NextStream ==
    \/ /\ ~fed.ended
       /\ \/ \E st \in Streams :
                /\ Len(fed.chunks) < Len(st)
                /\ SubSeq(st, 1, Len(fed.chunks)) = fed.chunks
                /\ stream_chunk(st[Len(fed.chunks) + 1])
          \/ fed.chunks \in Streams /\ stream_end
    \/ StreamHandlers \/ ForceSplit
    \/ \E f \in Fetchers : Fetcher(f)
    \/ Playback

SpecStream == Init /\ [][NextStream]_vars

\* "aaaaaaaaaaae'": eleven ASCII bytes and U+00E9, whose second byte is the
\* first byte past DEFAULT_MAX_CHUNK_LEN
Accented == <<"a", "a", "a", "a", "a", "a", "a", "a", "a", "a", "a", "C3", "A9">>

\* cleaned texts given to speak: empty, one byte, no alphanumeric character,
\* short, a single two-byte character, longer than DEFAULT_MAX_CHUNK_LEN
CleanedTexts ==
    {<<>>, <<"a">>, <<"?", "!">>, <<"a", ".">>, <<"C3", "A9">>, OneSentence,
     LongSentence, Accented}

\* The handle and the text processor under speak of every kind of cleaned
\* text, stream_chunk of an empty and of a non-empty text, stream_end and
\* stop; no fetcher takes a job.
NextValidate ==
    \/ /\ calls < MaxCalls
       /\ \/ \E t \in CleanedTexts : speak(t)
          \/ \E t \in {<<>>, TwoSentences} : stream_chunk(t)
          \/ stream_end
          \/ StopBump
    \/ StopSendCmd \/ StopSendPlay
    \/ SpeakHandler \/ StreamHandlers \/ TpStop
    \/ PbDrain \/ PbStop

SpecValidate == Init /\ [][NextValidate]_vars

\* "a. a. ... a.": two of these texts are more sentences than the job
\* channel holds
ManySentences ==
    [i \in 1..(3 * (FETCH_QUEUE_CAPACITY \div 2 + 1) - 1) |->
        IF i % 3 = 1 THEN "a" ELSE IF i % 3 = 2 THEN "." ELSE " "]

HandleTexts == {ManySentences, Accented}

\* Every call of the handle, while no fetcher takes a job: the job channel
\* fills up and the text processor waits in its send.
NextHandle ==
    \/ /\ calls < MaxCalls + 1
       /\ \/ \E t \in HandleTexts : speak(t)
          \/ stream_chunk(TwoSentences)
          \/ stream_end
          \/ StopBump
          \/ skip \/ pause \/ resume
          \/ get_status
    \/ StopSendCmd \/ StopSendPlay
    \/ SpeakHandler \/ StreamHandlers \/ TpStop
    \/ PbDrain \/ PbStop \/ PbSkip \/ PbPauseResume

SpecHandle == Init /\ [][NextHandle]_vars

\* "First. Second. Third."
FirstSecondThird ==
    <<"F", "i", "r", "s", "t", ".", " ", "S", "e", "c", "o", "n", "d", ".", " ",
      "T", "h", "i", "r", "d", ".">>

\* "aaaa bbbbbbb ccccc.": a sentence longer than max_chunk_len whose first two
\* pieces together are not
ThreePieces ==
    <<"a", "a", "a", "a", " ", "b", "b", "b", "b", "b", "b", "b", " ",
      "c", "c", "c", "c", "c", ".">>

\* texts a tracker is built from: none, short sentences, a sentence longer
\* than max_chunk_len alone and before a short one, a sentence on which
\* split_text panics
TrackerTexts ==
    {<<>>, OneSentence, FirstSecondThird, HelloHow, LongSentence,
     LongSentence \o <<" ">> \o OneSentence, ThreePieces, Accented}

\* The application's tracker: built from a text and a start index, then
\* asked for the current sentence.
NextTracker ==
    /\ calls < MaxCalls
    /\ \/ \E t \in TrackerTexts, k \in 0..3 : TrackerNew(t, k)
       \/ \E c \in 0..MaxCompleted : CurrentSentence(c)

SpecTracker == Init /\ [][NextTracker]_vars

\* the texts of at most n bytes over an alphabet
TextsOver(alphabet, n) == UNION {[1..k -> alphabet] : k \in 0..n}

\* bytes that matter to split_sentences: a letter, sentence ends, blanks
SentenceBytes == {"a", ".", "?", " ", "\n"}

\* split_sentences on every short text
InitSentences ==
    /\ EngineInit
    /\ fn_arg \in TextsOver(SentenceBytes, MaxTextLen)
    /\ fn_ret = NoRet
    /\ tracker = empty
    /\ SourceInit

SpecSentences == InitSentences /\ [][SplitSentences]_vars

\* what the texts given to split_text are made of: words of nine, two and
\* one byte, a space, a sentence end, and U+00E9 in its two bytes
ChunkTokens ==
    {<<"a", "a", "a", "a", "a", "a", "a", "a", "a">>, <<"b", "b">>, <<"c">>,
     <<" ">>, <<".", " ">>, <<"C3", "A9">>}

\* the texts of at most MaxTokens tokens, each with a max_len
ChunkInputs ==
    {<<Flatten(ts), m>> :
        ts \in UNION {[1..k -> ChunkTokens] : k \in 0..MaxTokens}, m \in {20, 21}}

\* split_text on every such text
InitSplitText ==
    /\ EngineInit
    /\ fn_arg \in ChunkInputs
    /\ fn_ret = NoRet
    /\ tracker = empty
    /\ SourceInit

SpecSplitText == InitSplitText /\ [][SplitText]_vars

\* samples: the extremes of i16, -1, 0, and the two whose bytes spell "data"
SampleValues == {-32768, -1, 0, 24932, 24948, 32767}

\* sample rates: 0, 16000, 24000, 2^31 - 1, 2^31, 2^32 - 1
SampleRates ==
    {<<0, 0, 0, 0>>, <<128, 62, 0, 0>>, <<192, 93, 0, 0>>, <<255, 255, 255, 127>>,
     <<0, 0, 0, 128>>, <<255, 255, 255, 255>>}

\* write_wav on every short sample sequence at every such rate
InitWav ==
    /\ EngineInit
    /\ fn_arg \in {<<x, r>> : x \in TextsOver(SampleValues, MaxSamples),
                              r \in SampleRates}
    /\ fn_ret = NoRet
    /\ tracker = empty
    /\ SourceInit

\* write_wav, then parse_wav_header or fix_wav_sizes on the buffer as it is
\* or with sentinel sizes
NextWav == WriteWav \/ SentinelSizes \/ ParseWavHeader \/ FixWavSizes

SpecWav == InitWav /\ [][NextWav]_vars

\* "aaaaaaaaaaaaaaaaaaaaaaaa": 2 * max_chunk_len bytes and no space
Unspaced == [i \in 1..(2 * max_chunk_len) |-> "a"]

\* a space and then 2 * max_chunk_len - 1 bytes without one
LeadingSpace == <<" ">> \o [i \in 1..(2 * max_chunk_len - 1) |-> "a"]

\* max_chunk_len - 1 bytes, U+00E9 across the byte at max_chunk_len, and
\* max_chunk_len - 1 bytes more
AccentedAcross ==
    [i \in 1..(max_chunk_len - 1) |-> "a"] \o <<"C3", "A9">>
        \o [i \in 1..(max_chunk_len - 1) |-> "a"]

\* "aaaa bbbb cccc dddd. Yo": a complete sentence longer than max_chunk_len
\* and a tail
LongAndTail == LongSentence \o <<" ", "Y", "o">>

\* "aaaaaaaaaaae'. Yo": the same, with U+00E9 across the byte at max_chunk_len
AccentedAndTail == Accented \o <<".", " ", "Y", "o">>

\* chunks of a stream that has no sentence end for long: short, with and
\* without spaces, with a space at the end, with a character of two bytes
\* where the buffer would be cut; chunks of two sentences, the first short,
\* or longer than max_chunk_len; and chunks that stay in the buffer until
\* stream_end, longer than max_chunk_len or without an alphanumeric character
ForceTexts ==
    {<<"H", "i", " ">>, Unpunctuated, Unpunctuated \o <<" ">>, Unspaced,
     LeadingSpace, AccentedAcross, TwoSentences, LongAndTail, AccentedAndTail,
     LongSentence, Accented, <<"?", "!">>}

\* The text processor under the chunks of such a stream and stream_end; no
\* fetcher takes a job.
NextForce ==
    \/ /\ calls < MaxCalls
       /\ \/ \E t \in ForceTexts : stream_chunk(t)
          \/ stream_end
    \/ StreamHandlers \/ ForceSplit

SpecForce == Init /\ [][NextForce]_vars

\* A stream fed, ended and stopped, in every order of one call more than
\* MaxCalls, with the text processor at work; no fetcher takes a job.
NextStopStream ==
    \/ /\ calls < MaxCalls + 1
       /\ \/ \E t \in {TwoSentences, Unpunctuated} : stream_chunk(t)
          \/ stream_end
          \/ StopBump
    \/ StopSendCmd \/ StopSendPlay
    \/ StreamHandlers \/ ForceSplit \/ TpStop
    \/ PbDrain \/ PbStop

SpecStopStream == Init /\ [][NextStopStream]_vars

\* One text spoken and stop() called at any moment, with the scheduling the
\* runtime gives: every task and thread that can take a step eventually
\* takes one, a caller of stop() goes on to its sends, and a response body
\* ends.
NextStopped ==
    \/ calls = 0 /\ speak(OneSentence)
    \/ calls < MaxCalls /\ StopBump
    \/ StopSendCmd \/ StopSendPlay
    \/ SpeakHandler \/ TpStop
    \/ \E f \in Fetchers : Fetcher(f)
    \/ Playback \/ PbStop

FairnessStopped ==
    /\ Fairness
    /\ WF_vars(StopSendCmd \/ StopSendPlay)
    /\ WF_vars(TpStop)
    /\ WF_vars(PbStop)

FairSpecStopped == Init /\ [][NextStopped]_vars /\ FairnessStopped

\* A StreamingSource and the Sender of its channel: batches are sent, Done is
\* sent or the Sender is dropped, while next() is called again and again.
NextSource == (\E b \in Batches : TxSendData(b)) \/ TxSendDone \/ TxDrop
                 \/ NextBegin \/ NextWait

SpecSource == Init /\ [][NextSource]_vars

\* MaxCalls texts that together have more sentences than the job channel
\* holds are spoken, and then a short one.  The fetchers are slow: they take
\* no job before the channel has filled once, and the synthesizer fails or
\* sends no body yet.
NextBackpressure ==
    \/ calls < MaxCalls /\ speak(ManySentences)
    \/ calls = MaxCalls /\ speak(OneSentence)
    \/ SpeakHandler
    \/ /\ Len(jobs) >= FETCH_QUEUE_CAPACITY
       /\ \E f \in Fetchers :
             FLock(f) \/ FRecv(f) \/ FCheckJob(f) \/ FPost(f) \/ FResponse(f)
    \/ PbDrain

SpecBackpressure == Init /\ [][NextBackpressure]_vars

\* One text spoken, stop() called and the handle dropped at any moment, with
\* the scheduling the runtime gives: every task and thread that can take a
\* step eventually takes one, a caller of stop() goes on to its sends, and a
\* response body ends.
NextShutdown ==
    \/ /\ calls < MaxCalls
       /\ \/ speak(OneSentence)
          \/ StopBump
    \/ StopSendCmd \/ StopSendPlay
    \/ DropHandle
    \/ SpeakHandler \/ TpStop \/ TpExit
    \/ \E f \in Fetchers : Fetcher(f) \/ FExit(f)
    \/ Playback \/ PbStop \/ PbExit

FairnessShutdown ==
    /\ FairnessStopped
    /\ WF_vars(TpExit)
    /\ \A f \in Fetchers : WF_vars(FExit(f))
    /\ WF_vars(PbExit)

FairSpecShutdown == Init /\ [][NextShutdown]_vars /\ FairnessShutdown

\* One text of two sentences spoken, and then skip() called while its jobs
\* are fetched and played.
NextSkip ==
    \/ calls = 0 /\ speak(HelloHow)
    \/ calls > 0 /\ calls < MaxCalls /\ skip
    \/ SpeakHandler
    \/ \E f \in Fetchers : Fetcher(f)
    \/ Playback \/ PbSkip

SpecSkip == Init /\ [][NextSkip]_vars

\* The same with the scheduling the runtime gives.
FairSpecSkip == SpecSkip /\ Fairness /\ WF_vars(PbSkip)

\* "Hi.\n\nYo.": two sentences in two paragraphs
PunctuatedParagraphs == <<"H", "i", ".", "\n", "\n", "Y", "o", ".">>

\* "Hi\n\nYo": a heading and a line, separated by the paragraph break alone
BareParagraphs == <<"H", "i", "\n", "\n", "Y", "o">>

\* plain texts the reader speaks
ReaderTexts == {HelloHow, PunctuatedParagraphs, BareParagraphs}

\* The reader application: speak_from of a text from one of its sentences,
\* then tts_skip_sentence, one command at a time, while the text processor
\* handles the commands and the fetchers take the jobs.  The playback thread,
\* which writes the state of the status and neither queue_length nor the
\* tracker, takes no step.
NextReader ==
    \/ calls = 0 /\ \E t \in ReaderTexts, k \in 0..1 : speak_from(t, k)
    \/ calls > 0 /\ calls < MaxCalls /\ tts_skip_sentence
    \/ CommandStopSendCmd \/ CommandStopSendPlay
    \/ SpeakFromSpeak \/ SkipPastEnd
    \/ SpeakHandler \/ TpStop
    \/ \E f \in Fetchers : Fetcher(f)

SpecReader == Init /\ [][NextReader]_vars

\* bytes that matter to bytes_to_i16: the low and the high bit set or not
PcmBytes == {1, 255}

\* the chunks of at most MaxChunkBytes bytes, the empty one among them
PcmChunks == TextsOver(PcmBytes, MaxChunkBytes)

\* bytes_to_i16 on every response body of at most MaxChunks such chunks
InitBytes ==
    /\ EngineInit
    /\ fn_arg \in UNION {[1..k -> PcmChunks] : k \in 0..MaxChunks}
    /\ fn_ret = NoRet
    /\ tracker = empty
    /\ SourceInit

SpecBytes == InitBytes /\ [][BytesToI16]_vars

\* "LIST", the tag of a chunk the parser does not know
ListTag == <<76, 73, 83, 84>>

\* the first twelve bytes: RIFF and WAVE, "RIFX" for RIFF, "WAVX" for WAVE
WavHeaders ==
    {RiffTag \o LeBytes(36, 4) \o WaveTag,
     <<82, 73, 70, 88>> \o LeBytes(36, 4) \o WaveTag,
     RiffTag \o LeBytes(36, 4) \o <<87, 65, 86, 88>>}

\* the sixteen bytes of a fmt chunk's payload: audio_format, one channel,
\* 24000 Hz, 16 bits per sample
FmtPayload(audio_format) ==
    LeBytes(audio_format, 2) \o LeBytes(1, 2) \o LeBytes(24000, 4)
        \o LeBytes(48000, 4) \o LeBytes(2, 2) \o LeBytes(16, 2)

\* chunks: fmt as PCM with its size, with the sentinel size and with no
\* payload, fmt as IEEE float; data with two bytes and with the sentinel
\* size; an unknown chunk that is empty, that has two bytes, that has the
\* sentinel size, and that claims 65536 bytes
WavChunks ==
    {FmtTag \o LeBytes(16, 4) \o FmtPayload(1),
     FmtTag \o SentinelSize \o FmtPayload(1),
     FmtTag \o LeBytes(0, 4),
     FmtTag \o LeBytes(16, 4) \o FmtPayload(3),
     DataTag \o LeBytes(2, 4) \o <<1, 255>>,
     DataTag \o SentinelSize \o <<1, 255>>,
     ListTag \o LeBytes(0, 4),
     ListTag \o LeBytes(2, 4) \o <<1, 255>>,
     ListTag \o SentinelSize,
     ListTag \o <<0, 0, 1, 0>>}

\* a buffer cut short at every length
Prefixes(buf) == {SubSeq(buf, 1, n) : n \in 0..Len(buf)}

\* the buffers given to parse_wav_header: a header and at most MaxWavChunks
\* chunks, whole or cut short
WavBuffers ==
    UNION {Prefixes(h \o Flatten(cs)) :
              h \in WavHeaders,
              cs \in UNION {[1..k -> WavChunks] : k \in 0..MaxWavChunks}}

\* parse_wav_header on every such buffer
InitParse ==
    /\ EngineInit
    /\ fn_arg \in WavBuffers
    /\ fn_ret = NoRet
    /\ tracker = empty
    /\ SourceInit

SpecParse == InitParse /\ [][ParseBuffer]_vars

\* A text spoken, a stream fed with chunks of two sentences or with a long
\* chunk that has a character of two bytes where the buffer would be cut,
\* the stream ended, and stop() called, with the scheduling the runtime
\* gives.
NextCommands ==
    \/ /\ calls < MaxCalls
       /\ \/ speak(OneSentence)
          \/ \E t \in {TwoSentences, AccentedAcross} : stream_chunk(t)
          \/ stream_end
          \/ StopBump
    \/ StopSendCmd \/ StopSendPlay
    \/ SpeakHandler \/ StreamHandlers \/ TpStop
    \/ \E f \in Fetchers : Fetcher(f)
    \/ Playback \/ PbStop

FairSpecCommands == Init /\ [][NextCommands]_vars /\ FairnessStopped

(***************************************************************************)
(* Properties                                                              *)
(***************************************************************************)

\* the engine is at rest: every channel is empty, every task is waiting for
\* input, the sink has played everything, and no stop() is under way;
\* without another call on the handle nothing more happens
Quiescent ==
    /\ stop_pc = "idle"
    /\ cmdQ = <<>> /\ tp_pc = "recv"
    /\ fetchQ = <<>>
    /\ \A f \in Fetchers : fet[f].pc \in {"lock", "recv"}
    /\ playQ = <<>> /\ pb_pc \in {"recv", "exited"}
    /\ sink = <<>>

\* the jobs dispatched and neither finished nor discarded: in the job
\* channel or held by a fetcher
InFlight ==
    Len(fetchQ) + Cardinality({f \in Fetchers : fet[f].pc \notin {"lock", "recv"}})

\* C1: every source in the sink comes from a job dispatched after the last
\* stop() the playback thread has handled: the sink created when the k-th Stop
\* is handled never holds a source of a job dispatched before the k-th stop().
C1_NoStaleSourceInFreshSink ==
    \A i \in 1..Len(sink) : jobs[sink[i]].born >= pb_stops

\* C2: when stop() was the last call and the engine has come to rest, the
\* status is Idle with queue_length 0.
C2_IdleAfterStop ==
    (last_op = "stop" /\ Quiescent) =>
        status = [state |-> "Idle", queue_length |-> 0]

\* C3: no job carries an epoch later than the epoch at which its text was
\* submitted: a text submitted before a stop() is never stamped with the
\* epoch that stop() produced.
C3_NoPostStopStamp ==
    \A j \in 1..Len(jobs) : jobs[j].epoch <= jobs[j].at

\* C4: when the engine is at rest, queue_length equals the number of jobs in
\* flight (which is zero).
C4_QueueLengthIsInFlight ==
    Quiescent => status.queue_length = InFlight

\* C5: the step in which a fetcher drops a job because the request failed
\* or the status was not a success lowers queue_length by exactly one, and
\* the fetcher is back at the top of its loop.
C5_FailureDecrements ==
    [][\A f \in Fetchers :
          (fet[f].pc = "await_resp" /\ fet'[f].pc = "lock" /\ ~Stale(f))
              => status'.queue_length = status.queue_length - 1]_vars

\* C6: once the sink has drained and the playback thread waits for its next
\* command with none pending, the state is not Playing.
C6_IdleWhenDrained ==
    (pb_pc = "recv" /\ playQ = <<>> /\ sink = <<>> /\ Quiescent)
        => status.state # "Playing"

\* the whitespace-separated words of a text
RECURSIVE Words(_)
Words(text) ==
    LET t == TrimStart(text) IN
    IF t = <<>> THEN <<>>
    ELSE LET ends == {i \in 1..Len(t) : IsAsciiWhitespace(t[i])}
             n == IF ends = {} THEN Len(t) + 1
                  ELSE CHOOSE i \in ends : \A k \in ends : i <= k
         IN <<SubSeq(t, 1, n - 1)>> \o Words(SubSeq(t, n, Len(t)))

\* the texts and the stamps of the jobs dispatched after the first `from`
TextsFrom(js, from) == [i \in 1..(Len(js) - from) |-> js[from + i].text]
StampsFrom(js, from) == {js[i].epoch : i \in (from + 1)..Len(js)}

\* every job dispatched so far has been sent to the synthesizer exactly
\* once, and has exactly one PlayStream appended if its response carried a
\* sample
Served ==
    \A j \in 1..Len(jobs) :
        /\ hist[j].posted = 1
        /\ hist[j].sampled => hist[j].appended = 1

ExpectedPieces(text) ==
    LET ss == split_sentences(text) IN
    Flatten([i \in 1..Len(ss) |->
                IF Len(ss[i]) > max_chunk_len
                THEN split_text(ss[i], max_chunk_len) ELSE <<ss[i]>>])

HelloWorld == <<"H", "e", "l", "l", "o", " ", "w", "o", "r", "l", "d", ".">>
HowAreYou == <<"H", "o", "w", " ", "a", "r", "e", " ", "y", "o", "u", "?">>

C9_WordsPreserved ==
    (fed.ended /\ cmdQ = <<>> /\ tp_pc = "recv") =>
        Flatten([j \in 1..Len(jobs) |-> Words(jobs[j].text)])
            = Words(Flatten(fed.chunks))

\* C10: the epoch changes only in the first statement of stop(), by exactly
\* one, once per call of stop(); and no job is stamped with an epoch greater
\* than the current one.
C10_EpochMonotone ==
    /\ [][\/ epoch' = epoch /\ ~(calls' # calls /\ last_op' = "stop")
          \/ /\ epoch' = epoch + 1
             /\ calls' = calls + 1 /\ last_op' = "stop"
             /\ stop_pc = "idle" /\ stop_pc' = "cmd"]_vars
    /\ [](\A j \in 1..Len(jobs) : jobs[j].epoch <= epoch)

\* a stop() has been called, and a job is stamped with the epoch it produced
C10_Witness ==
    epoch >= 1 /\ \E j \in 1..Len(jobs) : jobs[j].epoch = epoch

\* C11: a call of speak whose cleaned text has fewer than 2 bytes or no
\* alphanumeric character returns 0 and leaves the command channel, the
\* status, the epoch and the job queue as they were; a call with any other
\* text appends exactly one Speak command carrying the text and returns at
\* least 1; stream_chunk("") appends nothing.
C11_SpeakValidation ==
    [][/\ (calls' = calls + 1 /\ last_op' = "speak") =>
            IF \/ Len(fn_arg') < 2
               \/ ~(\E i \in 1..Len(fn_arg') : IsAlphanumeric(fn_arg'[i]))
            THEN /\ fn_ret' = Returned(0)
                 /\ UNCHANGED <<cmdQ, status, epoch, fetchQ, jobs>>
            ELSE /\ cmdQ' = Append(cmdQ, [kind |-> "Speak", text |-> fn_arg',
                                          at |-> epoch])
                 /\ fn_ret'.kind = "value" /\ fn_ret'.value >= 1
       /\ (calls' = calls + 1 /\ last_op' = "stream_chunk" /\ fn_arg' = <<>>)
              => cmdQ' = cmdQ]_vars

\* the job channel is full and the text processor waits in fetch_tx.send
JobQueueFull ==
    /\ Len(fetchQ) = FETCH_QUEUE_CAPACITY
    /\ tp_pc \in {"speak_send", "disp_send", "end_send", "force_send"}

\* a call made on the handle in this step has returned a value in this step
ReturnsAtOnce ==
    /\ (calls' = calls + 1 /\ last_op' # "stop") => fn_ret'.kind = "value"
    /\ (stop_pc = "play" /\ stop_pc' = "idle") => fn_ret'.kind = "value"

\* each call of the handle can take its step in this state
CallsEnabled ==
    /\ \A t \in CleanedTexts : ENABLED speak(t)
    /\ ENABLED stream_chunk(TwoSentences)
    /\ ENABLED stream_end
    /\ ENABLED skip /\ ENABLED pause /\ ENABLED resume
    /\ ENABLED get_status
    /\ stop_pc = "idle" => ENABLED StopBump
    /\ stop_pc = "cmd" => ENABLED StopSendCmd
    /\ stop_pc = "play" => ENABLED StopSendPlay

\* C12: speak, stream_chunk, stream_end, stop, skip, pause, resume and status
\* always return without waiting for the text processor, the fetchers or the
\* playback worker: in every state of the pipeline, the job channel full and
\* the playback worker exited included, each of them can take its step, and
\* the step ends with a returned value.
C12_CallsReturnWithoutWaiting ==
    /\ []CallsEnabled
    /\ [][ReturnsAtOnce]_vars

\* the 0-based positions i of the tracker with chunks_completed < chunk_offsets[i]
Ahead(t, chunks_completed) ==
    {i \in 0..(Len(t.chunk_offsets) - 1) : chunks_completed < t.chunk_offsets[i + 1]}

\* C13: for a tracker built from (full_text, k), current_sentence(c) is
\* Some(k + i) for the lowest i with c < chunk_offsets[i], and None exactly
\* when c >= total_chunks; current_sentence(0) is Some(k) when the text has a
\* sentence at index k or later; for "First. Second. Third." and k = 0 the
\* values for c = 0, 1, 2, 3 are Some(0), Some(1), Some(2), None.
C13_CurrentSentence ==
    (last_op = "current_sentence" /\ fn_ret.kind = "value") =>
        LET c == fn_arg[1]
            ahead == Ahead(tracker, c)
        IN /\ ahead # {} =>
                  \E i \in ahead : /\ \A j \in ahead : i <= j
                                   /\ fn_ret.value = tracker.start_index + i
           /\ (fn_ret.value = None) <=> (c >= tracker.total_chunks)
           /\ (c = 0 /\ Len(split_sentences(tracker.full_text)) > tracker.start_index)
                  => fn_ret.value = tracker.start_index
           /\ (tracker.full_text = FirstSecondThird /\ tracker.start_index = 0 /\ c <= 3)
                  => fn_ret.value = IF c = 3 THEN None ELSE c

\* the tracker of "aaaa bbbb cccc dddd. Hi." from sentence 0 has been asked
\* after two chunks, past the two pieces of the first sentence
C13_Witness ==
    /\ last_op = "current_sentence"
    /\ tracker.full_text = LongSentence \o <<" ">> \o OneSentence
    /\ tracker.start_index = 0
    /\ tracker.chunk_offsets = <<2, 3>>
    /\ fn_arg = <<2>>
    /\ fn_ret = Returned(1)

\* C14: chunk_offsets[i] of the tracker is the number of FetchJobs the Speak
\* handler's chunking rule produces for sentences[0..=i] (one job per sentence
\* of at most max_chunk_len bytes, one per split_text piece of a longer one),
\* and total_chunks is the number of jobs for all its sentences.
C14_OffsetsMatchDispatcher ==
    /\ \A i \in 1..Len(tracker.sentences) :
          tracker.chunk_offsets[i] = Len(Batched(SubSeq(tracker.sentences, 1, i)))
    /\ tracker.total_chunks = Len(Batched(tracker.sentences))

\* a split lies between bytes p and p + 1 of the text (1-based): after a
\* sentence end that an ASCII whitespace follows, or inside a run of newlines
SplitsAfter(text, p) ==
    \/ IsSentenceEnd(text[p]) /\ text[p + 1] \in {" ", "\t", "\r", "\n"}
    \/ text[p] = "\n" /\ text[p + 1] = "\n"

\* the fragments between those splits, from byte p on, trimmed, the empty
\* ones left out; the fragment in hand begins at the 0-based offset start
RECURSIVE FragmentsFrom(_, _, _)
FragmentsFrom(text, start, p) ==
    IF p >= Len(text) THEN PushTrimmed(<<>>, Slice(text, start, Len(text)))
    ELSE IF SplitsAfter(text, p)
    THEN PushTrimmed(<<>>, Slice(text, start, p)) \o FragmentsFrom(text, p, p + 1)
    ELSE FragmentsFrom(text, start, p + 1)

\* C15: split_sentences splits after every '.', '!' or '?' that an ASCII
\* whitespace (space, tab, carriage return or newline) follows and at every
\* run of two or more newlines, and nowhere else; the fragments are trimmed
\* and not empty, the empty text gives the empty list, and a last fragment
\* without punctuation is kept.
C15_SplitSentences ==
    last_op = "split_sentences" =>
        /\ fn_ret.value = FragmentsFrom(fn_arg, 0, 1)
        /\ \A i \in 1..Len(fn_ret.value) :
              fn_ret.value[i] # <<>> /\ Trim(fn_ret.value[i]) = fn_ret.value[i]
        /\ fn_arg = <<>> => fn_ret.value = <<>>

\* C16: for every text s and every max_len m >= 20, split_text(s, m) returns
\* a list whose every element has at most m bytes.
C16_ChunksAtMostMaxLen ==
    last_op = "split_text" =>
        /\ fn_ret.kind = "value"
        /\ \A i \in 1..Len(fn_ret.value) : Len(fn_ret.value[i]) <= fn_arg[2]

\* C17: for every text s and every max_len m >= 20, every element of the
\* list split_text(s, m) returns has at least 2 bytes.
C17_ChunksAtLeastTwoBytes ==
    (last_op = "split_text" /\ fn_ret.kind = "value") =>
        \A i \in 1..Len(fn_ret.value) : Len(fn_ret.value[i]) >= 2

\* the elements joined with single spaces
RECURSIVE JoinSpaced(_)
JoinSpaced(chunks) ==
    IF chunks = <<>> THEN <<>>
    ELSE IF Len(chunks) = 1 THEN Head(chunks)
    ELSE Head(chunks) \o <<" ">> \o JoinSpaced(Tail(chunks))

\* the text holds the word as a run of consecutive bytes
Contains(text, word) == Rfind(text, word) >= 0

\* C18: for every text s and every max_len m >= 20, the elements of the list
\* split_text(s, m) returns, joined with single spaces, contain every
\* whitespace-separated word of s.
C18_ChunksKeepEveryWord ==
    (last_op = "split_text" /\ fn_ret.kind = "value") =>
        LET words == Words(fn_arg[1]) IN
        \A i \in 1..Len(words) : Contains(JoinSpaced(fn_ret.value), words[i])

\* C19: for every sample sequence x and every sample rate r, write_wav(x, r)
\* returns a buffer, and parse_wav_header of that buffer, as it is or with
\* its RIFF and data sizes overwritten with 0xFFFFFFFF, succeeds with
\* channels = 1, sample_rate = r, bits_per_sample = 16 and data_offset = 44.
C19_HeaderRoundTrip ==
    /\ last_op = "write_wav" => fn_ret.kind = "value"
    /\ last_op = "parse_wav_header" =>
          fn_ret.value = Ok([channels |-> 1, sample_rate |-> fn_arg[2],
                             bits_per_sample |-> 16, data_offset |-> 44])

\* C20: fix_wav_sizes returns a buffer that write_wav returned byte for byte
\* as it was, and, given that buffer with its RIFF and data sizes replaced
\* by 0xFFFFFFFF, returns the original bytes: RIFF size = length - 8, data
\* size = length - data offset.
C20_FixWavSizes ==
    last_op = "fix_wav_sizes" =>
        /\ fn_ret.value = fn_arg[3]
        /\ U32At(fn_ret.value, 4) = LeBytes(Len(fn_arg[4]) - 8, 4)
        /\ U32At(fn_ret.value, 40) = LeBytes(Len(fn_arg[4]) - 44, 4)

\* fix_wav_sizes has been given a buffer of two samples with sentinel sizes
C20_Witness ==
    /\ last_op = "fix_wav_sizes"
    /\ Len(fn_arg[1]) = 2
    /\ fn_arg[4] # fn_arg[3]
    /\ U32At(fn_arg[4], 4) = SentinelSize
    /\ U32At(fn_arg[4], 40) = SentinelSize
    /\ fn_ret.value = fn_arg[3]

\* the fetchers that have taken a job and not yet finished with it
Busy == {f \in Fetchers : fet[f].pc \notin {"lock", "recv"}}

\* C21: jobs leave the job channel strictly FIFO: the k-th dequeue returns the
\* k-th job the text processor enqueued, at most one fetcher is dequeuing at
\* any instant, and no job is delivered to two fetchers or lost (every job
\* enqueued is either still in the channel, in order, or was dequeued once).
C21_JobsDequeuedFifo ==
    /\ \A k \in 1..Len(dequeued) : dequeued[k] = k
    /\ Cardinality({f \in Fetchers : fet[f].pc = "recv"}) <= 1
    /\ \A f \in Fetchers : fet[f].pc = "recv" => lock_holder = f
    /\ \A f, g \in Busy : f # g => fet[f].job # fet[g].job
    /\ \A f \in Busy : \E k \in 1..Len(dequeued) : dequeued[k] = fet[f].job
    /\ fetchQ = [i \in 1..Len(fetchQ) |-> Len(dequeued) + i]
    /\ Len(dequeued) + Len(fetchQ) = Len(jobs)

\* two jobs were dequeued and each of the two fetchers is at work on one
C21_Witness ==
    /\ Len(dequeued) = 2
    /\ Busy = Fetchers
    /\ \E f \in Fetchers : fet[f].job = 1
    /\ \E f \in Fetchers : fet[f].job = 2

\* the jobs of one epoch, A dispatched before B, whose sources were both
\* appended to the sink, B's first
AppendedOutOfOrder ==
    {<<a, b>> \in (1..Len(jobs)) \X (1..Len(jobs)) :
        /\ a < b
        /\ jobs[a].epoch = jobs[b].epoch
        /\ hist[a].append_rank > 0
        /\ hist[b].append_rank > 0
        /\ hist[b].append_rank < hist[a].append_rank}

\* C22: the sink holds its sources in the order the playback thread received
\* their PlayStream, and for two jobs A and B of one epoch, A dispatched
\* first, B's source is appended before A's only if B's fetcher obtained its
\* first non-empty batch before A's fetcher obtained A's.
C22_AppendOrder ==
    /\ \A i, k \in 1..Len(sink) :
          i < k => hist[sink[i]].append_rank < hist[sink[k]].append_rank
    /\ \A p \in AppendedOutOfOrder :
          hist[p[2]].batch_rank < hist[p[1]].batch_rank

\* the samples of the Data chunks sent on the channel, in send order
SentSamples == Flatten([i \in 1..Len(sent) |-> sent[i].samples])

IsSample(y) == y.kind = "sample"

\* the samples next() has yielded, keep-alive zeros left out
YieldedSamples ==
    LET ys == SelectSeq(yielded, IsSample)
    IN [i \in 1..Len(ys) |-> ys[i].value]

\* next() has returned None
Ended == \E i \in 1..Len(yielded) : yielded[i].kind = "end"

\* C24: apart from keep-alive zeros, the samples a StreamingSource yields are
\* exactly the samples of the Data batches sent before Done or before the
\* Sender was dropped, in send order, none lost, duplicated or reordered:
\* what was yielded so far is the beginning of what was sent, what is
\* buffered or in the channel is the rest, and at end-of-sequence everything
\* sent was yielded.
C24_YieldsWhatWasSent ==
    /\ Len(YieldedSamples) <= Len(SentSamples)
    /\ YieldedSamples = SubSeq(SentSamples, 1, Len(YieldedSamples))
    /\ Ended => YieldedSamples = SentSamples

\* three batches were sent, the source kept the output alive with a zero in
\* between, and it ended having yielded five samples
C24_Witness ==
    /\ Ended
    /\ Len(sent) >= 3
    /\ Len(YieldedSamples) >= 5
    /\ \E i \in 1..Len(yielded) : yielded[i] = Silence

\* Done is among the chunks sent
DoneSent == \E i \in 1..Len(sent) : sent[i].kind = "Done"

\* None is returned only once Done was sent or the Sender dropped, with
\* nothing left in the buffer; and after None nothing but None
EndIsFinal ==
    /\ Ended => (DoneSent \/ ~rx.connected) /\ source.buffer = <<>>
    /\ \A i, k \in 1..Len(yielded) :
          i < k /\ yielded[i].kind = "end" => yielded[k].kind = "end"

\* a call of next() returns
Returns == Len(yielded') = Len(yielded) + 1

\* a keep-alive zero is returned only with the buffer empty, the channel
\* empty and the Sender alive, and in that case one zero is what the wait
\* returns
SilenceOnTimeout ==
    /\ Returns /\ yielded'[Len(yielded')] = Silence
          => source.buffer = <<>> /\ rx.items = <<>> /\ rx.connected
    /\ source.pc = "wait" /\ Returns /\ rx.items = <<>> /\ rx.connected
          => yielded' = Append(yielded, Silence)

\* C25: next() returns end-of-sequence only after Done was received or the
\* Sender was dropped and every sample buffered before that was yielded; with
\* the buffer empty, the Sender alive and no batch arriving within the wait it
\* returns a single zero sample; once it has returned end-of-sequence it
\* never yields a sample again.
C25_EndOfSequence == []EndIsFinal /\ [][SilenceOnTimeout]_vars

\* the source kept the output alive, then yielded a sample, then returned
\* None twice
C25_Witness ==
    \E i \in 1..Len(yielded) :
        /\ i + 3 <= Len(yielded)
        /\ yielded[i] = Silence
        /\ yielded[i + 1].kind = "sample"
        /\ yielded[i + 2].kind = "end"
        /\ yielded[i + 3].kind = "end"

\* the jobs whose source was sent to the playback thread
HandedOver == {j \in 1..Len(jobs) : hist[j].pcm # "none"}

\* what the first next() on a new source returns when its channel holds
\* `items`: fill_buffer drains them, and waits if that gave nothing
FirstNext(items) ==
    LET d == Drain(NewSource, items)
    IN IF Blocks(d.self)
       THEN Yield(RecvTimeout(d.self, [items |-> <<>>, connected |-> TRUE]))
       ELSE Yield(d.self)

\* C23: whenever PlayStream(source) is enqueued to the playback thread the
\* source's channel already holds a non-empty Data batch, so the first next()
\* on a source handed to the sink returns a real sample, never a keep-alive
\* zero or end-of-sequence, whatever the fetcher has sent after the batch.
C23_FirstBatchBeforePlayStream ==
    /\ \A i \in 1..Len(playQ) :
          playQ[i].kind = "PlayStream" => playQ[i].id \in HandedOver
    /\ \A j \in HandedOver :
          /\ hist[j].handed # <<>>
          /\ hist[j].handed[1].kind = "Data"
          /\ hist[j].handed[1].samples # <<>>
          /\ \A more \in {<<>>, <<Done>>, <<Data(<<7>>)>>, <<Data(<<7>>), Done>>} :
                FirstNext(hist[j].handed \o more).kind = "sample"

\* PlayStream for a job is in the PlayCmd channel while its fetcher streams on
C23_Witness ==
    \E i \in 1..Len(playQ), f \in Fetchers :
        /\ playQ[i].kind = "PlayStream"
        /\ fet[f].job = playQ[i].id
        /\ fet[f].pc = "stream"
        /\ fet[f].pcm_tx

\* the PCM channel of job j is open: its source was handed over, and neither
\* was Done sent nor the source dropped
Open(j) == j <= Len(hist) /\ hist[j].pcm = "open"

\* Done was sent on the channel of job j, or the channel is gone
Closed(j) == j <= Len(hist) /\ hist[j].pcm \in {"done", "dropped"}

\* the source of job j has ended and the sink has dropped it
Gone(j) == j <= Len(hist) /\ hist[j].pcm = "dropped"

\* C26: for every source a fetcher hands to the playback thread, the fetcher
\* eventually sends Done or drops the Sender on every way out of the body
\* loop (body ended, read error, epoch found stale), so that the source
\* eventually reaches end-of-sequence and leaves the sink.
C26_SourceEventuallyEnds ==
    \A j \in 1..MaxCalls : (Open(j) ~> Closed(j)) /\ (Open(j) ~> Gone(j))

\* Done was sent for a job the fetcher found stale
C26_Witness ==
    \E j \in 1..Len(jobs) : hist[j].pcm = "done" /\ jobs[j].epoch < epoch

\* the last space within the first max_chunk_len bytes of a buffer, as a
\* 0-based offset, or max_chunk_len if there is none
CutPoint(buffer) ==
    LET spaces == {i \in 0..(max_chunk_len - 1) : buffer[i + 1] = " "}
    IN IF spaces = {} THEN max_chunk_len
       ELSE CHOOSE i \in spaces : \A k \in spaces : k <= i

\* the left piece of a buffer cut there, trimmed
LeftPiece(buffer) == Trim(SubSeq(buffer, 1, CutPoint(buffer)))

\* the right piece, trimmed: at both ends, or at its start only
RightPieces(buffer) ==
    LET right == SubSeq(buffer, CutPoint(buffer) + 1, Len(buffer))
    IN {Trim(right), TrimStart(right)}

\* the text processor has pushed the chunk in hand onto a buffer of a live
\* stream, and the buffer shows at most one sentence
AtMostOneSentence ==
    /\ tp_pc = "chunk_check"
    /\ epoch = stream_epoch
    /\ Len(split_sentences(stream_buffer \o tp_text)) <= 1

\* what the handler does then
ForceSplitRule ==
    LET buffer == stream_buffer \o tp_text
    IN IF Len(buffer) < 2 * max_chunk_len
       THEN tp_pc' = "recv" /\ jobs' = jobs /\ stream_buffer' = buffer
       ELSE /\ stream_buffer' \in RightPieces(buffer)
            /\ jobs' = jobs
            /\ IF Len(LeftPiece(buffer)) >= 2
               THEN /\ tp_pc' = "force_status"
                    /\ tp_batch' = <<LeftPiece(buffer)>>
                    /\ Len(LeftPiece(buffer)) <= max_chunk_len
               ELSE tp_pc' = "recv"

\* the left piece is sent as one job, and the handler is done
ForceSplitSendsOne ==
    /\ jobs' = Append(jobs, jobs'[Len(jobs')])
    /\ jobs'[Len(jobs')].text = Head(tp_batch)
    /\ stream_buffer' = stream_buffer
    /\ tp_pc' = "recv"

\* C27: when the stream buffer shows at most one sentence after a
\* StreamChunk, a buffer shorter than 2 * max_chunk_len is left unchanged and
\* nothing is dispatched; otherwise one cut is made at the last space within
\* the first max_chunk_len bytes (at max_chunk_len if there is none), the
\* trimmed left piece is dispatched as one job of at most max_chunk_len bytes
\* if it has at least 2 bytes, and the trimmed right piece remains in the
\* buffer.
C27_ForceSplit ==
    [][/\ AtMostOneSentence /\ tp_pc' # tp_pc => ForceSplitRule
       /\ tp_pc = "force_send" /\ tp_pc' # tp_pc => ForceSplitSendsOne]_vars

\* the sentences of a list, a sentence longer than max_chunk_len replaced by
\* its sub-split
PiecesOf(ss) ==
    Flatten([i \in 1..Len(ss) |->
                IF Len(ss[i]) > max_chunk_len
                THEN split_text(ss[i], max_chunk_len) ELSE <<ss[i]>>])

AllButLast(ss) == SubSeq(ss, 1, Len(ss) - 1)

\* the text processor has pushed the chunk in hand onto the buffer of a live
\* stream, and the buffer shows two sentences or more
TwoSentencesOrMore ==
    /\ tp_pc = "chunk_check"
    /\ epoch = stream_epoch
    /\ Len(split_sentences(stream_buffer \o tp_text)) >= 2

\* the handler of such a chunk returns
DispatchReturns ==
    /\ tp_pc \in {"disp_status", "disp_check", "disp_send"}
    /\ tp_pc' = "recv"

\* C28: when the stream buffer shows two or more sentences after a
\* StreamChunk, the handler goes on to dispatch, and when it returns it has
\* dispatched every sentence except the last, in order, sub-split if longer
\* than max_chunk_len, and nothing of the last sentence, which is exactly what
\* the buffer then holds.
C28_CompleteSentencesDispatched ==
    [][/\ TwoSentencesOrMore /\ tp_pc' # tp_pc => tp_pc' = "disp_status"
       /\ DispatchReturns =>
            LET ss == split_sentences(stream_buffer)
            IN /\ TextsFrom(jobs', tp_start) = PiecesOf(AllButLast(ss))
               /\ stream_buffer' = ss[Len(ss)]]_vars

\* the text processor takes a StreamEnd command
TakesStreamEnd ==
    /\ tp_pc = "recv"
    /\ cmdQ # <<>>
    /\ Head(cmdQ).kind = "StreamEnd"
    /\ cmdQ' = Tail(cmdQ)

\* a stream is in progress, the epoch is still the stream's, and the trimmed
\* buffer has at least 2 bytes and an alphanumeric character
Flushable ==
    /\ stream_epoch # None
    /\ epoch = stream_epoch
    /\ Len(Trim(stream_buffer)) >= 2
    /\ \E i \in 1..Len(Trim(stream_buffer)) : IsAlphanumeric(Trim(stream_buffer)[i])

\* the handler of a StreamEnd that had something to flush returns
FlushReturns ==
    /\ tp_pc \in {"end_status", "end_check", "end_send"}
    /\ tp_pc' = "recv"

\* C29: handling StreamEnd dispatches the trimmed buffer, as one job or as
\* its split_text pieces when longer than max_chunk_len, if and only if a
\* stream is in progress, the epoch equals the stream's epoch and the trimmed
\* buffer has at least 2 bytes and an alphanumeric character; in every case
\* the buffer is empty and no stream is in progress afterwards.
C29_StreamEndFlushes ==
    [][/\ TakesStreamEnd =>
            /\ stream_epoch' = None
            /\ IF Flushable
               THEN tp_pc' = "end_status"
               ELSE tp_pc' = "recv" /\ jobs' = jobs /\ stream_buffer' = <<>>
       /\ FlushReturns =>
            /\ TextsFrom(jobs', tp_start) = PiecesOf(<<Trim(stream_buffer)>>)
            /\ stream_buffer' = <<>>
            /\ stream_epoch' = None]_vars

\* stop() was called while the stream the text processor knows of was in
\* progress
StoppedInStream == stream_epoch # None /\ epoch # stream_epoch

\* the text processor takes a command of the kind
Takes(kind) ==
    /\ tp_pc = "recv"
    /\ cmdQ # <<>>
    /\ Head(cmdQ).kind = kind
    /\ cmdQ' = Tail(cmdQ)

\* the buffer is discarded and the stream ended, and no job is enqueued
Discards ==
    /\ stream_buffer' = <<>>
    /\ stream_epoch' = None
    /\ jobs' = jobs
    /\ tp_pc' = "recv"

\* the StreamChunk, StreamEnd or Stop command handled next after such a
\* stop() discards the buffer: a StreamChunk at its stale check, the other
\* two as they are taken
NextCommandDiscards ==
    /\ StoppedInStream /\ tp_pc = "chunk_check" /\ tp_pc' # tp_pc => Discards
    /\ StoppedInStream /\ Takes("StreamEnd") => Discards
    /\ Takes("Stop") => Discards

\* a stream handler enqueues a job
StreamJobSent ==
    /\ tp_pc \in {"force_send", "disp_send", "end_send"}
    /\ Len(jobs') = Len(jobs) + 1

JobSent == Len(jobs') = Len(jobs) + 1

\* the dispatch under way has already enqueued a job, and the epoch had
\* advanced past the job's stamp when it did
SentStale ==
    /\ Len(jobs) > tp_start
    /\ jobs[Len(jobs)].born # jobs[Len(jobs)].epoch

\* C31: the text processor compares the stamp with the epoch before it
\* enqueues each job and aborts the dispatch when they differ.  A comparison
\* before each send stands between two sends of one dispatch, so a dispatch
\* that has enqueued a job after the epoch had advanced enqueues no further
\* one, and a job enqueued carries the epoch of the moment its dispatch last
\* compared; the property states the first, which no timing of stop() between
\* a comparison and its send can break.
C31_EpochComparedBeforeEachSend == [][JobSent => ~SentStale]_vars

\* the text processor waits in fetch_tx.send(..).await on a full channel
Blocked ==
    /\ tp_pc \in {"speak_send", "force_send", "disp_send", "end_send"}
    /\ Len(fetchQ) = FETCH_QUEUE_CAPACITY

\* a fetcher takes a job from the channel
Dequeues == Len(dequeued') = Len(dequeued) + 1

\* the text processor stays where it is: it sends no job and takes no command
Waits ==
    /\ UNCHANGED <<tp_pc, tp_batch, jobs>>
    /\ Len(cmdQ') >= Len(cmdQ)
    /\ SubSeq(cmdQ', 1, Len(cmdQ)) = cmdQ

AllExited ==
    /\ tp_pc = "exited"
    /\ \A f \in Fetchers : fet[f].pc = "exited"
    /\ pb_pc = "exited"
    /\ sink = <<>>

\* a fetcher has returned only if the job channel is drained and closed
ExitsInOrder ==
    \A f \in Fetchers :
        fet[f].pc = "exited" => JobChannelClosed /\ fetchQ = <<>>

\* the playback thread returns only when it finds its command channel empty
\* and closed, and then its sink is stopped
PlaybackExitsLast ==
    (pb_pc # "exited" /\ pb_pc' = "exited")
        => playQ = <<>> /\ PlayChannelClosed /\ sink' = <<>>

\* C33: once every handle is dropped, the text processor exits, the fetchers
\* exit after the job channel is drained and closed, and the playback thread
\* then finds its command channel closed, stops the sink and exits; in the
\* end no stage is running.
C33_ShutdownCompletes ==
    /\ []ExitsInOrder
    /\ [][PlaybackExitsLast]_vars
    /\ (~handle_alive ~> AllExited)

\* a text was spoken and played, the handle was dropped, and every stage has
\* returned
C33_Witness ==
    /\ ~handle_alive
    /\ AllExited
    /\ Len(jobs) = 1
    /\ hist[1].appended = 1

\* the playback thread handles PlayCmd::Skip
HandlesSkip ==
    /\ pb_pc = "recv"
    /\ playQ # <<>>
    /\ Head(playQ).kind = "Skip"
    /\ playQ' = Tail(playQ)

\* what handling Skip changes: the front source goes and the others keep
\* their places; no other job's source is touched; the state changes only to
\* Idle and only when the sink is left empty; the epoch, the jobs, the job
\* channel, the fetchers and queue_length stay as they are
SkipEffect ==
    /\ sink' = IF sink = <<>> THEN <<>> ELSE Tail(sink)
    /\ \A j \in 1..Len(jobs) : (sink = <<>> \/ j # Head(sink)) => hist'[j] = hist[j]
    /\ status'.state # status.state => status'.state = "Idle" /\ sink' = <<>>
    /\ status'.queue_length = status.queue_length
    /\ UNCHANGED <<epoch, cmdQ, jobs, fetchQ, fet>>

\* a call of skip() on the handle
CallsSkip == calls' = calls + 1 /\ last_op' = "skip"

\* what skip() changes: nothing but the PlayCmd channel
SkipCallEffect ==
    /\ UNCHANGED <<epoch, cmdQ, status, jobs, hist, fetchQ, fet, sink>>
    /\ playQ' \in {playQ, Append(playQ, [kind |-> "Skip", id |-> 0])}

\* C34: handling Skip removes the source that is playing and no other,
\* leaves the sources behind it in their order, and sets the state to Idle
\* only if the sink is then empty; skip() changes neither the epoch, nor the
\* job queue, nor queue_length; and the jobs still being fetched get their
\* sources appended afterwards.
C34_SkipRemovesCurrentOnly ==
    /\ [][(HandlesSkip => SkipEffect) /\ (CallsSkip => SkipCallEffect)]_vars
    /\ []<>(pb_pc # "exited" => Served)

\* the first job's source was skipped while its fetcher was still sending
\* samples; the second job's source, queued behind it, is in the sink and
\* the state is Playing
C34_Witness ==
    /\ last_op = "skip"
    /\ playQ = <<>>
    /\ sink = <<2>>
    /\ hist[1].pcm = "dropped"
    /\ \E f \in Fetchers : fet[f].job = 1 /\ fet[f].pc = "send_data"
    /\ status.state = "Playing"

\* the bytes of the chunks read so far
BytesRead == Flatten(SubSeq(fn_arg, 1, fn_ret.value.read))

\* a byte sequence decoded at once as little-endian 16-bit pairs
WholeDecode(bytes) ==
    [i \in 1..(Len(bytes) \div 2) |-> I16FromLe(bytes[2 * i - 1], bytes[2 * i])]

\* C35: decoding a byte stream chunk by chunk with bytes_to_i16, the leftover
\* carried into the next call, gives the samples of the whole stream decoded
\* at once, however the stream is cut into chunks; the leftover is Some
\* exactly when an odd number of bytes has been read, and it is the last one.
C35_ChunkedDecodeIsWholeDecode ==
    fn_ret.kind = "value" =>
        /\ fn_ret.value.samples = WholeDecode(BytesRead)
        /\ fn_ret.value.leftover # None <=> Len(BytesRead) % 2 = 1
        /\ fn_ret.value.leftover # None
              => fn_ret.value.leftover = BytesRead[Len(BytesRead)]

\* the stream 01 | FF 01 has been read: a pair across the two chunks, and
\* an odd byte at the end
C35_Witness ==
    /\ fn_arg = << <<1>>, <<255, 1>> >>
    /\ fn_ret.kind = "value"
    /\ fn_ret.value = [read |-> 2, samples |-> <<-255>>, leftover |-> 1]

\* where the chunk after the one at pos begins: past its eight bytes of tag
\* and size and its payload; a fmt chunk of sentinel size has the standard
\* sixteen bytes, any other chunk of sentinel size none
NextChunk(buf, pos) ==
    LET size == Slice(buf, pos + 4, pos + 8)
    IN IF size = SentinelSize
       THEN pos + 8 + (IF Slice(buf, pos, pos + 4) = FmtTag THEN 16 ELSE 0)
       ELSE IF size[3] > 0 \/ size[4] > 0 THEN Len(buf)
       ELSE pos + 8 + size[1] + 256 * size[2]

\* the offsets of the chunks of the buffer from pos on, up to its first data
\* chunk: a chunk is there when its tag and size are
RECURSIVE ChunksFrom(_, _)
ChunksFrom(buf, pos) ==
    IF pos + 8 > Len(buf) THEN <<>>
    ELSE IF Slice(buf, pos, pos + 4) = DataTag THEN <<pos>>
    ELSE <<pos>> \o ChunksFrom(buf, NextChunk(buf, pos))

\* the buffer is one of those the parser must refuse
Malformed(buf) ==
    \/ Len(buf) < 12
    \/ Slice(buf, 0, 4) # RiffTag
    \/ Slice(buf, 8, 12) # WaveTag
    \/ LET chunks == ChunksFrom(buf, 12)
           IsFmt(i) == Slice(buf, chunks[i], chunks[i] + 4) = FmtTag
           IsData(i) == Slice(buf, chunks[i], chunks[i] + 4) = DataTag
       IN \/ \E i \in 1..Len(chunks) :
                /\ IsFmt(i)
                /\ \/ chunks[i] + 24 > Len(buf)
                   \/ U16At(buf, chunks[i] + 8) # 1
          \/ \E i \in 1..Len(chunks) :
                IsData(i) /\ ~\E k \in 1..(i - 1) : IsFmt(k)
          \/ ~\E i \in 1..Len(chunks) : IsData(i)

\* C36: parse_wav_header returns on every buffer, and returns an error when
\* the buffer has fewer than 12 bytes, lacks the RIFF or the WAVE tag, has a
\* fmt chunk that is truncated or not PCM, has its data chunk before any fmt
\* chunk, or has no data chunk.
C36_MalformedIsRefused ==
    fn_ret # NoRet =>
        /\ fn_ret.kind = "value"
        /\ Malformed(fn_arg) => fn_ret.value.tag = "Err"

\* a header, a data chunk and then a fmt chunk: refused since the data chunk
\* comes first
C36_Witness ==
    /\ fn_arg = RiffTag \o LeBytes(36, 4) \o WaveTag
                   \o DataTag \o LeBytes(2, 4) \o <<1, 255>>
                   \o FmtTag \o LeBytes(16, 4) \o FmtPayload(1)
    /\ fn_ret = Returned(Err("data chunk before fmt chunk"))

\* C37: whenever no job is in flight (the job channel is empty and no
\* fetcher holds a job), no command is pending for the text processor or the
\* playback thread, no call or handler is under way and the sink is empty,
\* the state is Idle.  In such a state every task waits for input, so the
\* engine stays in it until the next call on the handle.
C37_IdleWhenNothingInFlight ==
    (Quiescent /\ InFlight = 0 /\ pb_pc = "recv") => status.state = "Idle"

\* a fetcher stands at a send to the playback thread or to a PCM channel
Sending(f) == fet[f].pc \in {"send_play", "send_data"}

\* C38: the pipeline never deadlocks: a fetcher at a send to the playback
\* thread or to a source's PCM channel goes on, a text processor waiting in
\* a send on a full job channel goes on, and every command the handle has
\* enqueued, Stop included, is taken by the text processor in the end.
C38_NoDeadlock ==
    /\ \A f \in Fetchers : Sending(f) ~> ~Sending(f)
    /\ Blocked ~> ~Blocked
    /\ (cmdQ # <<>>) ~> (cmdQ = <<>>)

\* the texts of the jobs dispatched for the text submitted at the epoch e
JobTextsAt(e) ==
    LET mine == SelectSeq(jobs, LAMBDA j : j.at = e)
    IN [i \in 1..Len(mine) |-> mine[i].text]

IsPrefix(s, t) == Len(s) <= Len(t) /\ s = SubSeq(t, 1, Len(s))

\* C39: the sentences the text processor derives from the text a command of
\* the reader has submitted (the tracker's sentences joined with single
\* spaces) are the tracker's sentences, and the jobs dispatched for that text
\* are, in order, the chunks of the tracker's sentences.
C39_EngineSentencesAreTrackerSentences ==
    stop_pc = "idle" =>
        /\ (tp_pc \in {"speak_status", "speak_send"} /\ tp_at = epoch)
               => split_sentences(tp_text) = tracker.sentences
        /\ IsPrefix(JobTextsAt(epoch), Batched(tracker.sentences))

\* the sentence the tracker reports for the status of the engine
Reported == current_sentence(tracker, ChunksCompleted(tracker, status))

\* a step that calls tts_skip_sentence
SkipSentenceCalled == calls' = calls + 1 /\ last_op' = "tts_skip_sentence"

\* a step in which tts_skip_sentence returns after its stop()
SkipSentenceReturns ==
    last_op = "tts_skip_sentence" /\ stop_pc # "idle" /\ stop_pc' = "idle"

\* TtsEngine::speak takes the text: two bytes or more, one alphanumeric
Speakable(cleaned) ==
    Len(cleaned) >= 2 /\ \E i \in 1..Len(cleaned) : IsAlphanumeric(cleaned[i])

\* what the command's stop() does to the two command channels when it goes
\* on from its second and from its third statement
StopIsSent ==
    /\ stop_pc \in {"from_cmd", "end_cmd"} =>
           cmdQ' = Append(cmdQ, [kind |-> "Stop", text |-> <<>>, at |-> epoch])
    /\ stop_pc \in {"from_play", "end_play"} =>
           playQ' = IF pb_pc = "exited" THEN playQ
                    ELSE Append(playQ, [kind |-> "Stop", id |-> 0])

=============================================================================
